---------------------------- MODULE Spec2Model ----------------------------
(***************************************************************************)
(* Talent-sourcing matching core: keyword extraction, field scoring,       *)
(* weighted aggregation (utils/matching_engine.py), document text          *)
(* extraction (utils/text_parser.py) and the matching orchestrator         *)
(* (services/matching_service.py) over the SQLAlchemy session.             *)
(*                                                                         *)
(* Texts are TLA+ strings; a character is a string of length 1.  Scores    *)
(* are exact rationals <<numerator, denominator>>; the stored match_score  *)
(* is an integer number of hundredths (round(overall, 2) * 100).           *)
(***************************************************************************)
EXTENDS Integers, Sequences, FiniteSets, TLC

Null == "__null__"

-----------------------------------------------------------------------------
(* Characters and strings (Python str semantics used by the code)          *)

UPPER == "ABCDEFGHIJKLMNOPQRSTUVWXYZ"
LOWER == "abcdefghijklmnopqrstuvwxyz"
DIGITS == "0123456789"

Ch(s, i) == SubSeq(s, i, i)

CharsOf(s) == {Ch(s, i) : i \in 1..Len(s)}

\* \w of the re module: letters, digits and the underscore
WordChars == CharsOf(UPPER) \cup CharsOf(LOWER) \cup CharsOf(DIGITS) \cup {"_"}

IsWordChar(c) == c \in WordChars

LowerMap == [c \in CharsOf(UPPER) |-> Ch(LOWER, CHOOSE i \in 1..26 : Ch(UPPER, i) = c)]

UpperMap == [c \in CharsOf(LOWER) |-> Ch(UPPER, CHOOSE i \in 1..26 : Ch(LOWER, i) = c)]

LowerCh(c) == IF c \in DOMAIN LowerMap THEN LowerMap[c] ELSE c

UpperCh(c) == IF c \in DOMAIN UpperMap THEN UpperMap[c] ELSE c

IsAlpha(c) == c \in DOMAIN LowerMap \/ c \in DOMAIN UpperMap

\* str.lower()
RECURSIVE StrLower(_)
StrLower(s) ==
    IF Len(s) = 0 THEN ""
    ELSE IF Len(s) = 1 THEN LowerCh(s)
    ELSE StrLower(SubSeq(s, 1, Len(s) \div 2))
         \o StrLower(SubSeq(s, (Len(s) \div 2) + 1, Len(s)))

\* Python whitespace as produced by the code's own formatting
IsSpace(c) == c \in {" ", "\n", "\t"}

\* str.strip()
StrStrip(s) ==
    LET keep == {i \in 1..Len(s) : ~IsSpace(Ch(s, i))}
    IN  IF keep = {} THEN ""
        ELSE LET lo == CHOOSE i \in keep : \A k \in keep : i <= k
                 hi == CHOOSE i \in keep : \A k \in keep : i >= k
             IN  SubSeq(s, lo, hi)

\* separator.join(items)
RECURSIVE StrJoin(_, _)
StrJoin(sep, items) ==
    IF Len(items) = 0 THEN ""
    ELSE IF Len(items) = 1 THEN items[1]
    ELSE items[1] \o sep \o StrJoin(sep, Tail(items))

\* field.replace('_', ' ').title(): underscores become spaces, and every
\* letter that follows a non-letter is upper-cased, every other lower-cased
RECURSIVE TitleFrom(_, _)
TitleFrom(s, i) ==
    IF i > Len(s) THEN ""
    ELSE LET c    == IF Ch(s, i) = "_" THEN " " ELSE Ch(s, i)
             prev == IF i = 1 THEN " " ELSE Ch(s, i - 1)
         IN  (IF IsAlpha(prev) THEN LowerCh(c) ELSE UpperCh(c)) \o TitleFrom(s, i + 1)

FieldTitle(field) == TitleFrom(field, 1)

\* s occurs in t at position i (1-based)
OccursAt(s, t, i) ==
    /\ i >= 1
    /\ i + Len(s) - 1 <= Len(t)
    /\ \A k \in 1..Len(s) : Ch(t, i + k - 1) = Ch(s, k)

\* \b of the re module at the gap before position i of t (i in 1..Len(t)+1)
WordBoundary(t, i) ==
    LET before == i > 1 /\ IsWordChar(Ch(t, i - 1))
        after  == i <= Len(t) /\ IsWordChar(Ch(t, i))
    IN  before # after

-----------------------------------------------------------------------------
(* MatchingEngine: static tables                                           *)

\* FIELD_WEIGHTS, in hundredths (0.40, 0.20, 0.20, 0.10, 0.10), in the
\* insertion order the aggregation loop iterates
FIELDS == <<"hard_skills", "soft_skills", "certifications", "time_zone", "contract_duration">>

\* a variant whose weights sum to more than 1
FIELD_WEIGHTS_HEAVY ==
    [hard_skills |-> 50, soft_skills |-> 20, certifications |-> 20,
     time_zone |-> 10, contract_duration |-> 10]

FIELD_WEIGHTS ==
    [hard_skills |-> 40, soft_skills |-> 20, certifications |-> 20,
     time_zone |-> 10, contract_duration |-> 10]

HARD_SKILLS_KEYWORDS ==
    <<"python", "java", "javascript", "react", "angular", "vue", "node.js", "nodejs",
      "express", "django", "flask", "fastapi", "spring", "hibernate",
      "sql", "mysql", "postgresql", "mongodb", "redis", "elasticsearch",
      "aws", "azure", "gcp", "docker", "kubernetes", "jenkins", "git",
      "html", "css", "bootstrap", "tailwind", "sass", "less",
      "machine learning", "ai", "data science", "pandas", "numpy", "tensorflow",
      "pytorch", "scikit-learn", "opencv", "nlp", "deep learning",
      "microservices", "rest api", "graphql", "websockets", "grpc">>

SOFT_SKILLS_KEYWORDS ==
    <<"communication", "leadership", "teamwork", "problem solving", "analytical",
      "creative", "adaptable", "time management", "project management",
      "collaboration", "mentoring", "presentation", "negotiation",
      "critical thinking", "decision making", "conflict resolution">>

CERTIFICATION_KEYWORDS ==
    <<"aws certified", "azure certified", "google cloud", "gcp certified",
      "pmp", "scrum master", "agile", "cissp", "ceh", "comptia",
      "oracle certified", "microsoft certified", "cisco", "ccna", "ccnp",
      "itil", "prince2", "six sigma", "lean">>

TIME_ZONE_KEYWORDS ==
    <<"ist", "pst", "est", "cst", "mst", "utc", "gmt", "cet", "jst",
      "india standard time", "pacific standard time", "eastern standard time",
      "central standard time", "mountain standard time", "coordinated universal time">>

CONTRACT_DURATION_KEYWORDS ==
    <<"permanent", "contract", "temporary", "full-time", "part-time",
      "freelance", "consultant", "3 months", "6 months", "12 months",
      "1 year", "2 years", "long term", "short term">>

\* similarity threshold of the fuzzy fallback, shortlist threshold and
\* "significantly weak" threshold of the mismatch summary
FUZZY_THRESHOLD == 80

SHORTLIST_THRESHOLD == 80

WEAK_THRESHOLD == 70

FALLBACK_SUMMARY == "Overall score below threshold despite partial matches"

-----------------------------------------------------------------------------
(* MatchingEngine.extract_keywords_from_text                               *)

\* a variant that searches without the two \b
SearchSubstring(kw, text_lower) ==
    \E i \in 1..(Len(text_lower) - Len(kw) + 1) : OccursAt(kw, text_lower, i)

\* re.search(r'\b' + re.escape(keyword.lower()) + r'\b', text_lower)
SearchWord(kw, text_lower) ==
    \E i \in 1..(Len(text_lower) - Len(kw) + 1) :
        /\ OccursAt(kw, text_lower, i)
        /\ WordBoundary(text_lower, i)
        /\ WordBoundary(text_lower, i + Len(kw))

\* "if not text" holds for None and for ""
extract_keywords_from_text(text, keyword_list) ==
    IF text = Null \/ text = "" THEN <<>>
    ELSE LET text_lower == StrLower(text)
         IN  SelectSeq(keyword_list, LAMBDA kw : SearchWord(StrLower(kw), text_lower))

-----------------------------------------------------------------------------
(* fuzz.partial_ratio                                                      *)

Max2(a, b) == IF a >= b THEN a ELSE b

\* one row of the longest-common-subsequence table: prev is row i-1
\* (indices 1..Len(b), column 0 is 0), c the i-th character of a
RECURSIVE LcsRow(_, _, _, _)
LcsRow(prev, c, b, acc) ==
    IF Len(acc) = Len(b) THEN acc
    ELSE LET j    == Len(acc) + 1
             diag == IF j = 1 THEN 0 ELSE prev[j - 1]
             left == IF j = 1 THEN 0 ELSE acc[j - 1]
             v    == IF Ch(b, j) = c THEN diag + 1 ELSE Max2(prev[j], left)
         IN  LcsRow(prev, c, b, Append(acc, v))

RECURSIVE LcsFrom(_, _, _, _)
LcsFrom(a, b, i, prev) ==
    IF i > Len(a) THEN (IF Len(b) = 0 THEN 0 ELSE prev[Len(b)])
    ELSE LcsFrom(a, b, i + 1, LcsRow(prev, Ch(a, i), b, <<>>))

LcsLen(a, b) == LcsFrom(a, b, 1, [j \in 1..Len(b) |-> 0])

\* round-half-even of num/den to an integer (num >= 0, den > 0)
RoundDiv(num, den) ==
    LET q == num \div den
        r == num % den
    IN  IF 2 * r < den THEN q
        ELSE IF 2 * r > den THEN q + 1
        ELSE IF q % 2 = 0 THEN q ELSE q + 1

\* 100 * ratio of the shorter string against the best window of the longer,
\* ratio = 2 * matches / (len(shorter) + len(window)); 0 for an empty string
partial_ratio(s1, s2) ==
    IF s1 = s2 THEN 100
    ELSE IF Len(s1) = 0 \/ Len(s2) = 0 THEN 0
    ELSE LET shorter == IF Len(s1) <= Len(s2) THEN s1 ELSE s2
             longer  == IF Len(s1) <= Len(s2) THEN s2 ELSE s1
             n       == Len(shorter)
             starts  == 1..(Len(longer) - n + 1)
         IN  IF \E i \in starts : OccursAt(shorter, longer, i) THEN 100
             ELSE LET ms   == {LcsLen(shorter, SubSeq(longer, i, i + n - 1)) : i \in starts}
                      best == CHOOSE x \in ms : \A y \in ms : x >= y
                  IN  RoundDiv(100 * 2 * best, 2 * n)

-----------------------------------------------------------------------------
(* Exact rationals <<numerator, denominator>> for the float scores         *)

RECURSIVE Gcd(_, _)
Gcd(a, b) == IF b = 0 THEN a ELSE Gcd(b, a % b)

Rat(n, d) == LET g == Gcd(n, d) IN IF g = 0 THEN <<n, d>> ELSE <<n \div g, d \div g>>

RatAdd(x, y) == Rat(x[1] * y[2] + y[1] * x[2], x[2] * y[2])

RatMul(x, y) == Rat(x[1] * y[1], x[2] * y[2])

\* x >= n and x < n for an integer n
RatGeq(x, n) == x[1] >= n * x[2]

RatLess(x, n) == x[1] < n * x[2]

\* round(x, 2), as a number of hundredths
Round2(x) == RoundDiv(x[1] * 100, x[2])

-----------------------------------------------------------------------------
(* MatchingEngine.calculate_field_score                                    *)

\* a variant whose exact comparison is case-sensitive
KeywordMatchedCaseSensitive(jd_keyword, cv_keywords, cv_text) ==
    \/ \E i \in 1..Len(cv_keywords) : cv_keywords[i] = jd_keyword
    \/ partial_ratio(StrLower(jd_keyword), StrLower(cv_text)) >= FUZZY_THRESHOLD

\* the test of one required keyword: exact case-insensitive match against the
\* candidate keywords first, then the fuzzy ratio against the CV text
KeywordMatched(jd_keyword, cv_keywords, cv_text) ==
    \/ \E i \in 1..Len(cv_keywords) : StrLower(cv_keywords[i]) = StrLower(jd_keyword)
    \/ partial_ratio(StrLower(jd_keyword), StrLower(cv_text)) >= FUZZY_THRESHOLD

\* a variant that tests for an empty CV before it tests for no requirement
calculate_field_score_cv_first(cv_keywords, jd_keywords, cv_text, jd_text) ==
    IF Len(cv_keywords) = 0 /\ cv_text = ""
    THEN [score |-> <<0, 1>>, missing |-> jd_keywords]
    ELSE IF Len(jd_keywords) = 0 THEN [score |-> <<100, 1>>, missing |-> <<>>]
    ELSE LET matched_keywords ==
                 SelectSeq(jd_keywords, LAMBDA k : KeywordMatched(k, cv_keywords, cv_text))
             missing_keywords ==
                 SelectSeq(jd_keywords, LAMBDA k : ~KeywordMatched(k, cv_keywords, cv_text))
         IN  [score   |-> Rat(Len(matched_keywords) * 100, Len(jd_keywords)),
              missing |-> missing_keywords]

\* a variant whose empty-CV return forgets the missing keywords
calculate_field_score_no_missing(cv_keywords, jd_keywords, cv_text, jd_text) ==
    IF Len(jd_keywords) = 0 THEN [score |-> <<100, 1>>, missing |-> <<>>]
    ELSE IF Len(cv_keywords) = 0 /\ cv_text = ""
         THEN [score |-> <<0, 1>>, missing |-> <<>>]
    ELSE LET matched_keywords ==
                 SelectSeq(jd_keywords, LAMBDA k : KeywordMatched(k, cv_keywords, cv_text))
             missing_keywords ==
                 SelectSeq(jd_keywords, LAMBDA k : ~KeywordMatched(k, cv_keywords, cv_text))
         IN  [score   |-> Rat(Len(matched_keywords) * 100, Len(jd_keywords)),
              missing |-> missing_keywords]

calculate_field_score(cv_keywords, jd_keywords, cv_text, jd_text) ==
    IF Len(jd_keywords) = 0 THEN [score |-> <<100, 1>>, missing |-> <<>>]
    ELSE IF Len(cv_keywords) = 0 /\ cv_text = ""
         THEN [score |-> <<0, 1>>, missing |-> jd_keywords]
    ELSE LET matched_keywords ==
                 SelectSeq(jd_keywords, LAMBDA k : KeywordMatched(k, cv_keywords, cv_text))
             missing_keywords ==
                 SelectSeq(jd_keywords, LAMBDA k : ~KeywordMatched(k, cv_keywords, cv_text))
         IN  [score   |-> Rat(Len(matched_keywords) * 100, Len(jd_keywords)),
              missing |-> missing_keywords]

-----------------------------------------------------------------------------
(* MatchingEngine.match_candidate_to_job                                   *)

\* x or ''
OrEmpty(x) == IF x = Null THEN "" ELSE x

KeywordList(field) ==
    CASE field = "hard_skills"       -> HARD_SKILLS_KEYWORDS
      [] field = "soft_skills"       -> SOFT_SKILLS_KEYWORDS
      [] field = "certifications"    -> CERTIFICATION_KEYWORDS
      [] field = "time_zone"         -> TIME_ZONE_KEYWORDS
      [] field = "contract_duration" -> CONTRACT_DURATION_KEYWORDS

\* the candidate attribute each dimension reads
CandidateField(candidate, field) ==
    CASE field = "hard_skills"       -> candidate.hard_skills
      [] field = "soft_skills"       -> candidate.soft_skills
      [] field = "certifications"    -> candidate.certifications
      [] field = "time_zone"         -> candidate.time_zone_alignment
      [] field = "contract_duration" -> candidate.contract_duration_willingness

\* f"{candidate.<field> or ''} {cv_text}"
CvFieldText(candidate, field, cv_text) ==
    OrEmpty(CandidateField(candidate, field)) \o " " \o cv_text

\* the text the job keywords of a dimension are extracted from: jd_text, and
\* for time_zone / contract_duration f"{job.<field> or ''} {jd_text}"
JdFieldText(job, field, jd_text) ==
    CASE field = "time_zone"         -> OrEmpty(job.time_zone) \o " " \o jd_text
      [] field = "contract_duration" -> OrEmpty(job.contract_duration) \o " " \o jd_text
      [] OTHER                       -> jd_text

JdKeywords(job, field, jd_text) ==
    extract_keywords_from_text(JdFieldText(job, field, jd_text), KeywordList(field))

CvKeywords(candidate, field, cv_text) ==
    extract_keywords_from_text(CvFieldText(candidate, field, cv_text), KeywordList(field))

\* scores[field], all_mismatches[field] of one dimension
FieldResult(candidate, job, field, cv_text, jd_text) ==
    calculate_field_score(CvKeywords(candidate, field, cv_text),
                          JdKeywords(job, field, jd_text), cv_text, jd_text)

\* overall_score += scores[field] * weight, over FIELD_WEIGHTS.items()
RECURSIVE WeightedSum(_, _)
WeightedSum(results, i) ==
    IF i > Len(FIELDS) THEN <<0, 1>>
    ELSE RatAdd(RatMul(results[FIELDS[i]].score, Rat(FIELD_WEIGHTS[FIELDS[i]], 100)),
                WeightedSum(results, i + 1))

OverallScore(results) == WeightedSum(results, 1)

\* a variant whose boundary is exclusive
StatusOfStrict(overall_score) ==
    IF ~RatLess(overall_score, SHORTLIST_THRESHOLD)
       /\ ~(overall_score[1] = SHORTLIST_THRESHOLD * overall_score[2])
    THEN "Shortlisted" ELSE "Rejected"

StatusOf(overall_score) ==
    IF RatGeq(overall_score, SHORTLIST_THRESHOLD) THEN "Shortlisted" ELSE "Rejected"

\* a dimension the summary names: missing items and a score below 70
WeakField(results, field) ==
    /\ Len(results[field].missing) > 0
    /\ RatLess(results[field].score, WEAK_THRESHOLD)

\* a variant that names the dimension by its key
MismatchPartRawName(results, field) ==
    field \o ": Missing " \o StrJoin(", ", results[field].missing)

MismatchPart(results, field) ==
    FieldTitle(field) \o ": Missing " \o StrJoin(", ", results[field].missing)

\* a variant that writes the summary whatever the overall score
MismatchSummaryUnguarded(results, overall_score) ==
    LET weak == SelectSeq(FIELDS, LAMBDA f : WeakField(results, f))
        mismatch_parts == [i \in 1..Len(weak) |-> MismatchPart(results, weak[i])]
    IN  IF Len(mismatch_parts) > 0 THEN StrJoin("; ", mismatch_parts)
        ELSE FALLBACK_SUMMARY

\* a variant that stops at the first weak dimension
MismatchSummaryFirstOnly(results, overall_score) ==
    IF RatLess(overall_score, SHORTLIST_THRESHOLD)
    THEN LET weak == SelectSeq(FIELDS, LAMBDA f : WeakField(results, f))
         IN  IF Len(weak) > 0 THEN MismatchPart(results, weak[1])
             ELSE FALLBACK_SUMMARY
    ELSE ""

MismatchSummary(results, overall_score) ==
    IF RatLess(overall_score, SHORTLIST_THRESHOLD)
    THEN LET weak == SelectSeq(FIELDS, LAMBDA f : WeakField(results, f))
             mismatch_parts == [i \in 1..Len(weak) |-> MismatchPart(results, weak[i])]
         IN  IF Len(mismatch_parts) > 0 THEN StrJoin("; ", mismatch_parts)
             ELSE FALLBACK_SUMMARY
    ELSE ""

match_candidate_to_job(candidate, job, cv_text, jd_text) ==
    LET results == [f \in {FIELDS[i] : i \in 1..Len(FIELDS)} |->
                        FieldResult(candidate, job, f, cv_text, jd_text)]
        overall_score == OverallScore(results)
    IN  [match_score      |-> Round2(overall_score),
         status           |-> StatusOf(overall_score),
         mismatch_summary |-> MismatchSummary(results, overall_score),
         field_scores     |-> [f \in DOMAIN results |-> results[f].score],
         mismatches       |-> [f \in DOMAIN results |-> results[f].missing],
         overall_score    |-> overall_score]

-----------------------------------------------------------------------------
(* TextParser.extract_jd_text                                              *)

JdLine(label, value) ==
    IF value = Null \/ value = "" THEN "" ELSE label \o ": " \o value \o "\n"

extract_jd_text(job) ==
    StrStrip(JdLine("Title", job.title)
             \o JdLine("Description", job.description)
             \o JdLine("Time Zone", job.time_zone)
             \o JdLine("Budget Range", job.budget_range)
             \o JdLine("Contract Duration", job.contract_duration))

-----------------------------------------------------------------------------
(* TextParser.extract_text_from_cv                                         *)

\* needle in haystack
Contains(needle, haystack) ==
    \E i \in 1..(Len(haystack) - Len(needle) + 1) : OccursAt(needle, haystack, i)

EndsWith(s, suffix) == OccursAt(suffix, s, Len(s) - Len(suffix) + 1)

\* download_file_from_url: the bytes behind the URL (ok), or a raised
\* exception (not ok: HTTP error, connection error, the 30 s timeout).
\* The bytes are what the two parsers make of them: file_content.pdf is what
\* extract_text_from_pdf returns ("" when fitz cannot open them),
\* file_content.docx what extract_text_from_docx returns.
DOWNLOAD_FAILED == [ok |-> FALSE, pdf |-> "", docx |-> ""]

\* what a caller of extract_text_from_cv would see if an exception left it
EXTRACT_RAISED == "__raised__"

extract_text_from_pdf(file_content) == StrStrip(file_content.pdf)

extract_text_from_docx(file_content) == StrStrip(file_content.docx)

\* a variant without the try/except around the download
extract_text_from_cv_raising(cv_file_path, fetched) ==
    IF cv_file_path = Null \/ cv_file_path = "" THEN ""
    ELSE IF ~fetched.ok THEN EXTRACT_RAISED
    ELSE LET url == StrLower(cv_file_path)
         IN  IF EndsWith(url, ".pdf") \/ Contains("pdf", url)
             THEN extract_text_from_pdf(fetched)
             ELSE IF EndsWith(url, ".docx") \/ Contains("docx", url)
             THEN extract_text_from_docx(fetched)
             ELSE LET pdf_text == extract_text_from_pdf(fetched)
                  IN  IF pdf_text # "" THEN pdf_text
                      ELSE extract_text_from_docx(fetched)

\* fetched: what download_file_from_url gives for cv_file_path
extract_text_from_cv(cv_file_path, fetched) ==
    IF cv_file_path = Null \/ cv_file_path = "" THEN ""
    ELSE IF ~fetched.ok THEN ""
    ELSE LET url == StrLower(cv_file_path)
         IN  IF EndsWith(url, ".pdf") \/ Contains("pdf", url)
             THEN extract_text_from_pdf(fetched)
             ELSE IF EndsWith(url, ".docx") \/ Contains("docx", url)
             THEN extract_text_from_docx(fetched)
             ELSE LET pdf_text == extract_text_from_pdf(fetched)
                  IN  IF pdf_text # "" THEN pdf_text
                      ELSE extract_text_from_docx(fetched)

-----------------------------------------------------------------------------
(* The records of the store.  No endpoint updates or deletes a job, and no *)
(* endpoint changes a candidate's declared fields, so both are fixed; the  *)
(* candidate columns that change are state variables below.                *)

JobIds == 1..3

\* an id no job row has
MissingJob == Cardinality(JobIds) + 1

JOBS ==
    <<[title             |-> "Backend Engineer",
       description       |-> "Python and AWS with good communication",
       time_zone         |-> "IST",
       budget_range      |-> "50",
       contract_duration |-> "6 months"],
      [title             |-> "Platform Lead",
       description       |->
           "Need python, java, react, django, sql, aws, docker, kubernetes and git. "
           \o "Soft: communication, leadership, teamwork, analytical, mentoring. "
           \o "Certs: pmp, scrum master, agile, cissp, ceh, comptia, cisco, ccna, "
           \o "itil, prince2, lean. "
           \o "Terms: permanent or temporary, full-time or part-time, freelance, long term.",
       time_zone         |-> "Asia/Kolkata",
       budget_range      |-> "5000",
       contract_duration |-> "negotiable"],
      [title             |-> "Data Analyst",
       description       |-> "Builds reports in sql",
       time_zone         |-> "UTC",
       budget_range      |-> "10",
       contract_duration |-> "3 months"]>>

CandIds == 1..6

\* an id no candidate row has
MissingCand == Cardinality(CandIds) + 1

NoSkills ==
    [hard_skills |-> Null, soft_skills |-> Null, certifications |-> Null,
     time_zone_alignment |-> Null, contract_duration_willingness |-> Null,
     cv_file_path |-> Null]

CANDIDATES ==
    <<[NoSkills EXCEPT
          !.hard_skills = "Python, AWS, Docker",
          !.soft_skills = "Communication, Leadership",
          !.time_zone_alignment = "IST",
          !.contract_duration_willingness = "6 months contract"]
      @@ [name |-> "Alice", job_id |-> 1],
      [NoSkills EXCEPT
          !.hard_skills = "Java, Spring",
          !.cv_file_path = "https://res.cloudinary.com/raw/upload/candidate_cvs/candidate_2"]
      @@ [name |-> "Bob", job_id |-> 1],
      [NoSkills EXCEPT
          !.hard_skills = "python, java, react, django, sql, aws, docker, kubernetes",
          !.soft_skills = "communication, leadership, teamwork, analytical",
          !.certifications = "pmp, scrum master, agile, cissp, ceh, comptia, cisco",
          !.contract_duration_willingness = "contract, permanent, temporary, full-time"]
      @@ [name |-> "Carol", job_id |-> 2],
      [NoSkills EXCEPT
          !.hard_skills = "python, java, react, django, sql, aws, docker",
          !.soft_skills = "communication, leadership, teamwork, analytical",
          !.certifications = "pmp, scrum master, agile, cissp, ceh, comptia, cisco, ccna",
          !.contract_duration_willingness =
              "contract, permanent, temporary, full-time, part-time"]
      @@ [name |-> "Dave", job_id |-> 2],
      NoSkills @@ [name |-> "Erin", job_id |-> MissingJob],
      NoSkills @@ [name |-> "Test Candidate 1", job_id |-> 1]>>

\* the row the migration's test-data INSERT adds (its three rows differ in
\* their cost columns only; one stands for them)
TestCand == Len(CANDIDATES)

\* the rows create_candidate has added
Created == CandIds \ {TestCand}

\* what the document store can hold behind a candidate's cv_file_path, as the
\* two parsers read it; a document can be replaced there at any time
DOCUMENTS ==
    <<[ok |-> TRUE, pdf |-> "python\n", docx |-> ""],
      [ok |-> TRUE, pdf |-> "", docx |-> "aws \n"],
      [ok |-> TRUE, pdf |-> "", docx |-> ""],
      [ok |-> TRUE, pdf |-> "Python, AWS, communication\nIST, 6 months contract\n", docx |-> ""]>>

-----------------------------------------------------------------------------
(* The state: the candidate table, the document store, and the requests    *)
(* in flight, each with its own AsyncSession (db/database.py).             *)

VARIABLES
    exists,        \* ids of the rows of the candidates table
    stored,        \* match_score, status, mismatch_summary of each row
    doc,           \* which of DOCUMENTS is behind each cv_file_path
    deletes,       \* rows deleted so far by other users of the database
    requests,      \* concurrent requests begun so far
    pc,            \* where each request is in its handler
    op,            \* the endpoint of each request
    arg,           \* its path parameter
    cid,           \* candidate_id of the current process_candidate_match call
    sessCand,      \* the session's identity map: Candidate objects
    sessJob,       \* the session's identity map: the Job object
    cvtext,        \* cv_text, local of process_candidate_match
    match_result,  \* local of process_candidate_match
    result,        \* what the last process_candidate_match call returned
    ret,           \* how it ended: returned a dict, or raised
    batch,         \* locals of process_job_matches
    bresult,       \* what process_job_matches returned
    entry,         \* history: the row's match columns when the call began
    steps,         \* history: the steps the call has performed
    cause,         \* history: why the call left the normal path
    download,      \* history: what the call's document download did
    last,          \* history: the previous call, if it returned success
    reads,         \* what the read path of each request gave its endpoint
    engine,        \* a call of the matching engine on its own: inputs, output
    target,        \* a Candidate object in memory: its cost attributes
    setter,        \* the attribute assignment the main thread is inside
    timers,        \* the threading.Timer callbacks started so far
    ledger,        \* the cost columns of each row of the candidates table
    costcall       \* a call of the cost service: inputs, row before, output

vars ==
    <<exists, stored, doc, deletes, requests, pc, op, arg, cid, sessCand, sessJob,
      cvtext, match_result, result, ret, batch, bresult, entry, steps,
      cause, download, last, reads, engine, target, setter, timers, ledger, costcall>>

\* the cost side, which no matching operation touches
costvars == <<target, setter, timers, ledger, costcall>>

\* the requests that can be in flight together
Procs == {1, 2}

\* rows other users of the database may delete during a run
MaxDeletes == 1

\* the rows they may pick
Deletable == {2, 4}

\* NULL in a Float column
NullScore == 0 - 1

NullTriple ==
    [match_score |-> NullScore, status |-> Null, mismatch_summary |-> Null]

Triple(r) ==
    [match_score      |-> r.match_score,
     status           |-> r.status,
     mismatch_summary |-> r.mismatch_summary]

Upd(f, p, v) == [f EXCEPT ![p] = v]

\* candidates whose cv_file_path is set
WithDocument == {c \in CandIds : CANDIDATES[c].cv_file_path # Null}

\* extract_text_from_cv on every document a candidate's cv_file_path can
\* lead to; version 0 is the download that fails
CV_TEXTS ==
    {[candidate_id |-> c, version |-> v,
      text |-> extract_text_from_cv(CANDIDATES[c].cv_file_path,
                  IF v = 0 THEN DOWNLOAD_FAILED ELSE DOCUMENTS[v])] :
        c \in WithDocument, v \in 0..Len(DOCUMENTS)}

CvTextOf(c, v) ==
    (CHOOSE e \in CV_TEXTS : e.candidate_id = c /\ e.version = v).text

\* the résumé texts extraction can produce for a candidate
CvTextsOf(c) ==
    IF c \in WithDocument
    THEN {e.text : e \in {x \in CV_TEXTS : x.candidate_id = c /\ x.text # EXTRACT_RAISED}}
    ELSE {""}

\* match_candidate_to_job on every input the orchestrator can pass to it
MATCHES ==
    {[candidate_id |-> c, cv_text |-> t,
      result |-> match_candidate_to_job(CANDIDATES[c], JOBS[CANDIDATES[c].job_id], t,
                                        extract_jd_text(JOBS[CANDIDATES[c].job_id]))] :
        <<c, t>> \in {ct \in {k \in CandIds : CANDIDATES[k].job_id \in JobIds}
                              \X UNION {CvTextsOf(k) : k \in CandIds} :
                         ct[2] \in CvTextsOf(ct[1])}}

MatchOf(c, t) ==
    (CHOOSE m \in MATCHES : m.candidate_id = c /\ m.cv_text = t).result

NoMatch == [match_score |-> NullScore]

NoResult == [success |-> FALSE, error |-> "__none__"]

NoBatch ==
    [job_id |-> 0, candidates |-> <<>>, idx |-> 0, results |-> <<>>,
     successful_matches |-> 0, failed_matches |-> 0, cause |-> "none"]

\* a Candidate object of the identity map: absent, loaded or expired; cur
\* are its attributes, orig the values the last load or flush left
NoObject == [st |-> "absent", cur |-> NullTriple, orig |-> NullTriple]

Loaded(t) == [st |-> "loaded", cur |-> t, orig |-> t]

NoDownload == [did |-> "none", version |-> 0]

NoRun == [valid |-> FALSE]

\* no read path called yet
NoRead == [how |-> "none", rows |-> <<>>, http |-> "none"]

\* no engine call made
NoCall == [call |-> "none"]

\* None in an Optional[float] cost value or a NULL cost column; every amount
\* is a whole number here
NoCost == 0 - 1

\* the four cost components, in the order calculate_final_rate adds them
COST_FIELDS == <<"rate", "margin", "infrastructure_cost", "processing_cost">>

\* value or 0.0
OrZero(v) == IF v = NoCost THEN 0 ELSE v

\* rate + margin + infrastructure_cost + processing_cost, None counted as 0
CostSum(row) ==
    OrZero(row.rate) + OrZero(row.margin) + OrZero(row.infrastructure_cost)
        + OrZero(row.processing_cost)

\* a Candidate object none of whose cost attributes has been set
NewCandidate ==
    [rate |-> NoCost, margin |-> NoCost, infrastructure_cost |-> NoCost,
     processing_cost |-> NoCost, final_client_rate |-> NoCost]

\* the main thread is not inside an attribute assignment
NoSet == [field |-> "none", value |-> NoCost]

\* the rows the cost service works on: candidate 1 created without any cost,
\* candidate 2 created with a rate and a margin
CostIds == 1..2

LEDGER ==
    [c \in CostIds |->
        IF c = 1
        THEN [rate |-> NoCost, margin |-> NoCost, infrastructure_cost |-> NoCost,
              processing_cost |-> NoCost, final_client_rate |-> 0]
        ELSE [rate |-> 5, margin |-> 2, infrastructure_cost |-> NoCost,
              processing_cost |-> NoCost, final_client_rate |-> 5 + 2]]

\* no call of the cost service made
NoCostCall == [fn |-> "none"]

Init ==
    /\ exists = Created
    /\ stored = [c \in CandIds |-> NullTriple]
    /\ doc = [c \in WithDocument |-> 1]
    /\ deletes = 0
    /\ requests = 0
    /\ pc = [p \in Procs |-> "idle"]
    /\ op = [p \in Procs |-> "none"]
    /\ arg = [p \in Procs |-> 0]
    /\ cid = [p \in Procs |-> 0]
    /\ sessCand = [p \in Procs |-> [c \in CandIds |-> NoObject]]
    /\ sessJob = [p \in Procs |-> "absent"]
    /\ cvtext = [p \in Procs |-> ""]
    /\ match_result = [p \in Procs |-> NoMatch]
    /\ result = [p \in Procs |-> NoResult]
    /\ ret = [p \in Procs |-> "none"]
    /\ batch = [p \in Procs |-> NoBatch]
    /\ bresult = [p \in Procs |-> NoResult]
    /\ entry = [p \in Procs |-> NullTriple]
    /\ steps = [p \in Procs |-> <<>>]
    /\ cause = [p \in Procs |-> "none"]
    /\ download = [p \in Procs |-> NoDownload]
    /\ last = NoRun
    /\ reads = [p \in Procs |-> NoRead]
    /\ engine = NoCall
    /\ target = NewCandidate
    /\ setter = NoSet
    /\ timers = <<>>
    /\ ledger = LEDGER
    /\ costcall = NoCostCall

-----------------------------------------------------------------------------
(* MatchingService.process_candidate_match                                 *)

CANDIDATE_NOT_FOUND == "Candidate with ID not found"

JOB_NOT_FOUND == "Job with ID not found"

PROCESSING_ERROR == "Error processing match"

BATCH_ERROR == "Error processing job matches"

Failure(msg) == [success |-> FALSE, error |-> msg]

\* the call process_candidate_match(c, db) begins
Enter(p, c) ==
    /\ cid' = Upd(cid, p, c)
    /\ pc' = Upd(pc, p, "load_candidate")
    /\ cvtext' = Upd(cvtext, p, "")
    /\ match_result' = Upd(match_result, p, NoMatch)
    /\ result' = Upd(result, p, NoResult)
    /\ ret' = Upd(ret, p, "none")
    /\ entry' = Upd(entry, p, IF c \in exists THEN stored[c] ELSE NullTriple)
    /\ steps' = Upd(steps, p, <<>>)
    /\ cause' = Upd(cause, p, "none")
    /\ download' = Upd(download, p, NoDownload)

\* the call ends: it returns the dict r, or an exception leaves it
Leave(p, how, r) ==
    /\ ret' = Upd(ret, p, how)
    /\ result' = Upd(result, p, r)
    /\ pc' = Upd(pc, p, IF op[p] = "batch" THEN "b_collect" ELSE "done")

\* an exception inside the try block: control goes to the except branch
Except(p, why) ==
    /\ pc' = Upd(pc, p, "rollback")
    /\ cause' = Upd(cause, p, why)
    /\ UNCHANGED <<result, ret>>

Step(p, name) == steps' = Upd(steps, p, Append(steps[p], name))

\* POST /candidates/match/{candidate_id}, with a session of its own
MatchCandidateRequest(p, c) ==
    /\ pc[p] = "idle"
    /\ op' = Upd(op, p, "single")
    /\ arg' = Upd(arg, p, c)
    /\ sessCand' = Upd(sessCand, p, [k \in CandIds |-> NoObject])
    /\ sessJob' = Upd(sessJob, p, "absent")
    /\ Enter(p, c)
    /\ UNCHANGED <<exists, stored, doc, deletes, batch, bresult, last>>
    /\ UNCHANGED <<reads, engine, costvars>>

StartMatchCandidate(p, c) ==
    /\ MatchCandidateRequest(p, c)
    /\ UNCHANGED requests

\* a variant that goes on to the extraction without loading the job
LoadCandidateSkipJob(p) ==
    /\ pc[p] = "load_candidate"
    /\ Step(p, "load_candidate")
    /\ \/ /\ cid[p] \notin exists
          /\ cause' = Upd(cause, p, "candidate_not_found")
          /\ Leave(p, "returned", Failure(CANDIDATE_NOT_FOUND))
          /\ UNCHANGED sessCand
       \/ /\ cid[p] \in exists
          /\ sessCand' = [sessCand EXCEPT ![p][cid[p]] =
                             IF @.st = "loaded" THEN @ ELSE Loaded(stored[cid[p]])]
          /\ pc' = Upd(pc, p, "extract_cv")
          /\ UNCHANGED <<cause, result, ret>>
    /\ UNCHANGED <<exists, stored, doc, deletes, requests, op, arg, cid, sessJob, cvtext,
                   match_result, batch, bresult, entry, download, last>>
    /\ UNCHANGED <<reads, engine, costvars>>

\* select(Candidate).where(Candidate.id == candidate_id)
LoadCandidate(p) ==
    /\ pc[p] = "load_candidate"
    /\ Step(p, "load_candidate")
    /\ \/ /\ Except(p, "execute")
          /\ UNCHANGED sessCand
       \/ /\ cid[p] \notin exists
          /\ cause' = Upd(cause, p, "candidate_not_found")
          /\ Leave(p, "returned", Failure(CANDIDATE_NOT_FOUND))
          /\ UNCHANGED sessCand
       \/ /\ cid[p] \in exists
          /\ sessCand' = [sessCand EXCEPT ![p][cid[p]] =
                             IF @.st = "loaded" THEN @ ELSE Loaded(stored[cid[p]])]
          /\ pc' = Upd(pc, p, "load_job")
          /\ UNCHANGED <<cause, result, ret>>
    /\ UNCHANGED <<exists, stored, doc, deletes, requests, op, arg, cid, sessJob, cvtext,
                   match_result, batch, bresult, entry, download, last>>
    /\ UNCHANGED <<reads, engine, costvars>>

\* a variant without the "if not job" check
LoadJobUnchecked(p) ==
    /\ pc[p] = "load_job"
    /\ Step(p, "load_job")
    /\ sessJob' = Upd(sessJob, p, "loaded")
    /\ pc' = Upd(pc, p, "extract_cv")
    /\ UNCHANGED <<cause, result, ret>>
    /\ UNCHANGED <<exists, stored, doc, deletes, requests, op, arg, cid, sessCand,
                   cvtext, match_result, batch, bresult, entry, download, last>>
    /\ UNCHANGED <<reads, engine, costvars>>

\* select(Job).where(Job.id == candidate.job_id)
LoadJob(p) ==
    /\ pc[p] = "load_job"
    /\ Step(p, "load_job")
    /\ \/ /\ Except(p, "execute")
          /\ UNCHANGED sessJob
       \/ /\ CANDIDATES[cid[p]].job_id \notin JobIds
          /\ cause' = Upd(cause, p, "job_not_found")
          /\ Leave(p, "returned", Failure(JOB_NOT_FOUND))
          /\ UNCHANGED sessJob
       \/ /\ CANDIDATES[cid[p]].job_id \in JobIds
          /\ sessJob' = Upd(sessJob, p, "loaded")
          /\ pc' = Upd(pc, p, "extract_cv")
          /\ UNCHANGED <<cause, result, ret>>
    /\ UNCHANGED <<exists, stored, doc, deletes, requests, op, arg, cid, sessCand, cvtext,
                   match_result, batch, bresult, entry, download, last>>
    /\ UNCHANGED <<reads, engine, costvars>>

\* cv_text = "" and, when cv_file_path is set, extract_text_from_cv
ExtractCvText(p) ==
    /\ pc[p] = "extract_cv"
    /\ Step(p, "extract_cv")
    /\ LET path == CANDIDATES[cid[p]].cv_file_path
       IN  IF path = Null \/ path = ""
           THEN /\ cvtext' = Upd(cvtext, p, "")
                /\ pc' = Upd(pc, p, "match")
                /\ UNCHANGED <<download, cause>>
           ELSE \E v \in {doc[cid[p]], 0} :
                  LET text == CvTextOf(cid[p], v)
                  IN  /\ download' = Upd(download, p,
                             [did     |-> IF v = 0 THEN "failed" ELSE "ok",
                              version |-> doc[cid[p]]])
                      /\ IF text = EXTRACT_RAISED
                         THEN /\ pc' = Upd(pc, p, "rollback")
                              /\ cause' = Upd(cause, p, "extract")
                              /\ UNCHANGED cvtext
                         ELSE /\ cvtext' = Upd(cvtext, p, text)
                              /\ pc' = Upd(pc, p, "match")
                              /\ UNCHANGED cause
    /\ UNCHANGED <<exists, stored, doc, deletes, requests, op, arg, cid, sessCand, sessJob,
                   match_result, result, ret, batch, bresult, entry, last>>
    /\ UNCHANGED <<reads, engine, costvars>>

\* extract_jd_text(job), then match_candidate_to_job
MatchCandidate(p) ==
    /\ pc[p] = "match"
    /\ steps' = Upd(steps, p, steps[p] \o <<"extract_jd", "match">>)
    /\ match_result' = Upd(match_result, p, MatchOf(cid[p], cvtext[p]))
    /\ pc' = Upd(pc, p, "assign")
    /\ UNCHANGED <<exists, stored, doc, deletes, requests, op, arg, cid, sessCand, sessJob,
                   cvtext, result, ret, batch, bresult, entry, cause,
                   download, last>>
    /\ UNCHANGED <<reads, engine, costvars>>

\* the three assignments to the Candidate object
AssignMatchFields(p) ==
    /\ pc[p] = "assign"
    /\ Step(p, "assign")
    /\ sessCand' = [sessCand EXCEPT ![p][cid[p]].cur = Triple(match_result[p])]
    /\ pc' = Upd(pc, p, "commit")
    /\ UNCHANGED <<exists, stored, doc, deletes, requests, op, arg, cid, sessJob, cvtext,
                   match_result, result, ret, batch, bresult, entry, cause,
                   download, last>>
    /\ UNCHANGED <<reads, engine, costvars>>

TripleFields == {"match_score", "status", "mismatch_summary"}

\* a variant of the flush that writes the score column alone
ScoreColumnOnly(obj) == {f \in {"match_score"} : obj.cur[f] # obj.orig[f]}

\* the columns the flush puts in its UPDATE: those whose attribute differs
\* from the value the object was loaded with
ChangedColumns(obj) == {f \in TripleFields : obj.cur[f] # obj.orig[f]}

\* await db.commit()
Commit(p) ==
    /\ pc[p] = "commit"
    /\ Step(p, "commit")
    /\ LET c       == cid[p]
           obj     == sessCand[p][c]
           changed == ChangedColumns(obj)
       IN  \/ /\ Except(p, "commit")
              /\ UNCHANGED <<stored, sessCand>>
           \/ /\ changed # {}
              /\ c \notin exists
              /\ Except(p, "stale")
              /\ UNCHANGED <<stored, sessCand>>
           \/ /\ changed = {} \/ c \in exists
              /\ stored' = IF changed = {} THEN stored
                           ELSE [stored EXCEPT ![c] =
                                   [f \in TripleFields |->
                                      IF f \in changed THEN obj.cur[f] ELSE @[f]]]
              /\ sessCand' = [sessCand EXCEPT ![p][c].orig = obj.cur]
              /\ pc' = Upd(pc, p, "refresh")
              /\ UNCHANGED <<cause, result, ret>>
    /\ UNCHANGED <<exists, doc, deletes, requests, op, arg, cid, sessJob, cvtext,
                   match_result, batch, bresult, entry, download, last>>
    /\ UNCHANGED <<reads, engine, costvars>>

\* await db.refresh(candidate)
Refresh(p) ==
    /\ pc[p] = "refresh"
    /\ Step(p, "refresh")
    /\ \/ /\ Except(p, "refresh")
          /\ UNCHANGED sessCand
       \/ /\ cid[p] \in exists
          /\ sessCand' = [sessCand EXCEPT ![p][cid[p]] = Loaded(stored[cid[p]])]
          /\ pc' = Upd(pc, p, "return")
          /\ UNCHANGED <<cause, result, ret>>
    /\ UNCHANGED <<exists, stored, doc, deletes, requests, op, arg, cid, sessJob, cvtext,
                   match_result, batch, bresult, entry, download, last>>
    /\ UNCHANGED <<reads, engine, costvars>>

\* the success dict
ReturnSuccess(p) ==
    /\ pc[p] = "return"
    /\ Leave(p, "returned",
             [success          |-> TRUE,
              candidate_id     |-> cid[p],
              candidate_name   |-> CANDIDATES[cid[p]].name,
              job_title        |-> JOBS[CANDIDATES[cid[p]].job_id].title,
              match_score      |-> match_result[p].match_score,
              status           |-> match_result[p].status,
              mismatch_summary |-> match_result[p].mismatch_summary,
              field_scores     |-> match_result[p].field_scores])
    /\ UNCHANGED <<exists, stored, doc, deletes, requests, op, arg, cid, sessCand, sessJob,
                   cvtext, match_result, batch, bresult, entry, steps, cause,
                   download, last>>
    /\ UNCHANGED <<reads, engine, costvars>>

\* Session.rollback expires every object of the session
Expire(obj) == IF obj.st = "absent" THEN obj ELSE [obj EXCEPT !.st = "expired"]

\* except Exception: await db.rollback(), then the failure dict
Rollback(p) ==
    /\ pc[p] = "rollback"
    /\ Step(p, "rollback")
    /\ \/ /\ Leave(p, "raised", NoResult)
          /\ UNCHANGED <<sessCand, sessJob>>
       \/ /\ sessCand' = Upd(sessCand, p, [c \in CandIds |-> Expire(sessCand[p][c])])
          /\ sessJob' = Upd(sessJob, p, IF sessJob[p] = "absent" THEN "absent" ELSE "expired")
          /\ Leave(p, "returned", Failure(PROCESSING_ERROR))
    /\ UNCHANGED <<exists, stored, doc, deletes, requests, op, arg, cid, cvtext,
                   match_result, batch, bresult, entry, cause, download, last>>
    /\ UNCHANGED <<reads, engine, costvars>>

\* what the history keeps of the call that has just ended: the call itself
\* when it returned success, nothing otherwise
Remember(p) ==
    IF ret[p] = "returned" /\ result[p].success
    THEN [valid        |-> TRUE,
          candidate_id |-> cid[p],
          cv_text      |-> cvtext[p],
          version      |-> download[p].version,
          triple       |-> Triple(result[p])]
    ELSE NoRun

\* the endpoint answers; its session closes and its locals are gone
FinishRequest(p) ==
    /\ pc[p] = "done"
    /\ pc' = Upd(pc, p, "idle")
    /\ last' = IF op[p] = "single" THEN Remember(p) ELSE last
    /\ op' = Upd(op, p, "none")
    /\ arg' = Upd(arg, p, 0)
    /\ cid' = Upd(cid, p, 0)
    /\ sessCand' = Upd(sessCand, p, [k \in CandIds |-> NoObject])
    /\ sessJob' = Upd(sessJob, p, "absent")
    /\ cvtext' = Upd(cvtext, p, "")
    /\ match_result' = Upd(match_result, p, NoMatch)
    /\ result' = Upd(result, p, NoResult)
    /\ ret' = Upd(ret, p, "none")
    /\ batch' = Upd(batch, p, NoBatch)
    /\ bresult' = Upd(bresult, p, NoResult)
    /\ entry' = Upd(entry, p, NullTriple)
    /\ steps' = Upd(steps, p, <<>>)
    /\ cause' = Upd(cause, p, "none")
    /\ download' = Upd(download, p, NoDownload)
    /\ UNCHANGED <<exists, stored, doc, deletes, requests>>
    /\ reads' = Upd(reads, p, NoRead)
    /\ UNCHANGED <<engine, costvars>>

-----------------------------------------------------------------------------
(* MatchingService.process_job_matches                                     *)

\* the except branch of process_job_matches
BatchFails(p, why) ==
    /\ bresult' = Upd(bresult, p, Failure(BATCH_ERROR))
    /\ batch' = [batch EXCEPT ![p].cause = why]
    /\ pc' = Upd(pc, p, "done")

\* the ids of a set of rows, in the order the query returns them
RECURSIVE InOrder(_)
InOrder(S) ==
    IF S = {} THEN <<>>
    ELSE LET m == CHOOSE x \in S : \A y \in S : x <= y
         IN  <<m>> \o InOrder(S \ {m})

\* POST /candidates/match-job/{job_id}, with a session of its own
StartMatchJob(p, j) ==
    /\ pc[p] = "idle"
    /\ op' = Upd(op, p, "batch")
    /\ arg' = Upd(arg, p, j)
    /\ sessCand' = Upd(sessCand, p, [k \in CandIds |-> NoObject])
    /\ sessJob' = Upd(sessJob, p, "absent")
    /\ batch' = Upd(batch, p, [NoBatch EXCEPT !.job_id = j])
    /\ bresult' = Upd(bresult, p, NoResult)
    /\ pc' = Upd(pc, p, "b_load_job")
    /\ UNCHANGED <<exists, stored, doc, deletes, requests, cid, cvtext, match_result,
                   result, ret, entry, steps, cause, download, last>>
    /\ UNCHANGED <<reads, engine, costvars>>

\* select(Job).where(Job.id == job_id)
BatchLoadJob(p) ==
    /\ pc[p] = "b_load_job"
    /\ \/ /\ BatchFails(p, "execute")
          /\ UNCHANGED sessJob
       \/ /\ arg[p] \notin JobIds
          /\ bresult' = Upd(bresult, p, Failure(JOB_NOT_FOUND))
          /\ batch' = [batch EXCEPT ![p].cause = "job_not_found"]
          /\ pc' = Upd(pc, p, "done")
          /\ UNCHANGED sessJob
       \/ /\ arg[p] \in JobIds
          /\ sessJob' = Upd(sessJob, p, "loaded")
          /\ pc' = Upd(pc, p, "b_load_candidates")
          /\ UNCHANGED <<batch, bresult>>
    /\ UNCHANGED <<exists, stored, doc, deletes, requests, op, arg, cid, sessCand, cvtext,
                   match_result, result, ret, entry, steps, cause, download,
                   last>>
    /\ UNCHANGED <<reads, engine, costvars>>

\* select(Candidate).where(Candidate.job_id == job_id)
BatchLoadCandidates(p) ==
    /\ pc[p] = "b_load_candidates"
    /\ LET rows == {c \in exists : CANDIDATES[c].job_id = arg[p]}
       IN  \/ /\ BatchFails(p, "execute")
              /\ UNCHANGED sessCand
           \/ /\ rows = {}
              /\ bresult' = Upd(bresult, p,
                     [success |-> TRUE,
                      message |-> "No candidates found for job",
                      results |-> <<>>])
              /\ pc' = Upd(pc, p, "done")
              /\ UNCHANGED <<batch, sessCand>>
           \/ /\ rows # {}
              /\ sessCand' = Upd(sessCand, p,
                     [c \in CandIds |->
                        IF c \in rows THEN Loaded(stored[c]) ELSE NoObject])
              /\ batch' = [batch EXCEPT ![p].candidates = InOrder(rows),
                                        ![p].idx = 1]
              /\ pc' = Upd(pc, p, "b_next")
              /\ UNCHANGED bresult
    /\ UNCHANGED <<exists, stored, doc, deletes, requests, op, arg, cid, sessJob, cvtext,
                   match_result, result, ret, entry, steps, cause, download,
                   last>>
    /\ UNCHANGED <<reads, engine, costvars>>

\* for candidate in candidates: process_candidate_match(candidate.id, db);
\* reading an attribute of an expired object needs a load the event loop
\* cannot do here, and raises
BatchNext(p) ==
    /\ pc[p] = "b_next"
    /\ batch[p].idx <= Len(batch[p].candidates)
    /\ LET c == batch[p].candidates[batch[p].idx]
       IN  IF sessCand[p][c].st = "expired"
           THEN /\ BatchFails(p, "expired")
                /\ UNCHANGED <<cid, cvtext, match_result, result, ret, entry,
                               steps, cause, download>>
           ELSE /\ Enter(p, c)
                /\ UNCHANGED <<batch, bresult>>
    /\ UNCHANGED <<exists, stored, doc, deletes, requests, op, arg, sessCand, sessJob, last>>
    /\ UNCHANGED <<reads, engine, costvars>>

\* results.append(result) and the two counters
BatchCollect(p) ==
    /\ pc[p] = "b_collect"
    /\ IF ret[p] = "raised"
       THEN /\ BatchFails(p, "raised")
            /\ UNCHANGED last
       ELSE /\ batch' = [batch EXCEPT
                   ![p].results = Append(@, result[p]),
                   ![p].successful_matches = IF result[p].success THEN @ + 1 ELSE @,
                   ![p].failed_matches = IF result[p].success THEN @ ELSE @ + 1,
                   ![p].idx = @ + 1]
            /\ pc' = Upd(pc, p, "b_next")
            /\ last' = Remember(p)
            /\ UNCHANGED bresult
    /\ UNCHANGED <<exists, stored, doc, deletes, requests, op, arg, cid, sessCand, sessJob,
                   cvtext, match_result, result, ret, entry, steps, cause,
                   download>>
    /\ UNCHANGED <<reads, engine, costvars>>

\* the success dict of the batch; job.title is read from the Job object
BatchReturn(p) ==
    /\ pc[p] = "b_next"
    /\ batch[p].idx > Len(batch[p].candidates)
    /\ IF sessJob[p] = "expired"
       THEN BatchFails(p, "expired")
       ELSE /\ bresult' = Upd(bresult, p,
                   [success            |-> TRUE,
                    job_id             |-> arg[p],
                    job_title          |-> JOBS[arg[p]].title,
                    total_candidates   |-> Len(batch[p].candidates),
                    successful_matches |-> batch[p].successful_matches,
                    failed_matches     |-> batch[p].failed_matches,
                    results            |-> batch[p].results])
            /\ pc' = Upd(pc, p, "done")
            /\ UNCHANGED batch
    /\ UNCHANGED <<exists, stored, doc, deletes, requests, op, arg, cid, sessCand, sessJob,
                   cvtext, match_result, result, ret, entry, steps, cause,
                   download, last>>
    /\ UNCHANGED <<reads, engine, costvars>>

-----------------------------------------------------------------------------
(* The read paths: MatchingService.get_match_results_for_job and           *)
(* get_shortlisted_candidates, behind their endpoints.                     *)

ReadOps == {"results", "shortlisted"}

\* GET /candidates/match-results/{job_id} and GET /candidates/shortlisted/
\* {job_id}, each with a session of its own
StartRead(p, kind, j) ==
    /\ pc[p] = "idle"
    /\ kind \in ReadOps
    /\ op' = Upd(op, p, kind)
    /\ arg' = Upd(arg, p, j)
    /\ sessCand' = Upd(sessCand, p, [k \in CandIds |-> NoObject])
    /\ sessJob' = Upd(sessJob, p, "absent")
    /\ reads' = Upd(reads, p, NoRead)
    /\ pc' = Upd(pc, p, "r_verify_job")
    /\ UNCHANGED <<exists, stored, doc, deletes, requests, cid, cvtext, match_result,
                   result, ret, batch, bresult, entry, steps, cause, download,
                   last, engine, costvars>>

\* the endpoint's "Verify job exists": 404 when it does not, 500 when the
\* query raises; the service is not called then
VerifyJob(p) ==
    /\ pc[p] = "r_verify_job"
    /\ \/ /\ reads' = Upd(reads, p, [NoRead EXCEPT !.http = "500"])
          /\ pc' = Upd(pc, p, "done")
          /\ UNCHANGED sessJob
       \/ /\ arg[p] \notin JobIds
          /\ reads' = Upd(reads, p, [NoRead EXCEPT !.http = "404"])
          /\ pc' = Upd(pc, p, "done")
          /\ UNCHANGED sessJob
       \/ /\ arg[p] \in JobIds
          /\ sessJob' = Upd(sessJob, p, "loaded")
          /\ pc' = Upd(pc, p, "r_query")
          /\ UNCHANGED reads
    /\ UNCHANGED <<exists, stored, doc, deletes, requests, op, arg, cid, sessCand, cvtext,
                   match_result, result, ret, batch, bresult, entry, steps,
                   cause, download, last, engine, costvars>>

\* one dict of match_results
MatchResultRow(c) ==
    [candidate_id     |-> c,
     candidate_name   |-> CANDIDATES[c].name,
     match_score      |-> stored[c].match_score,
     status           |-> stored[c].status,
     mismatch_summary |-> stored[c].mismatch_summary,
     hard_skills      |-> CANDIDATES[c].hard_skills]

\* one dict of shortlisted_results
ShortlistedRow(c) ==
    [candidate_id   |-> c,
     candidate_name |-> CANDIDATES[c].name,
     match_score    |-> stored[c].match_score,
     status         |-> stored[c].status,
     hard_skills    |-> CANDIDATES[c].hard_skills,
     cv_file_path   |-> CANDIDATES[c].cv_file_path]

\* select(Candidate).where(Candidate.job_id == job_id)
CandidatesOfJob(j) == {c \in exists : CANDIDATES[c].job_id = j}

\* a variant of the second query without its status condition
ShortlistedOfJobUnfiltered(j) == {c \in CandidatesOfJob(j) : TRUE}

\* the same with Candidate.status == "Shortlisted"
ShortlistedOfJob(j) == {c \in CandidatesOfJob(j) : stored[c].status = "Shortlisted"}

\* the except branch of both read paths: log, and raise Exception again;
\* the endpoint turns it into a 500
ReadRaises(p) ==
    /\ reads' = Upd(reads, p, [how |-> "raised", rows |-> <<>>, http |-> "500"])
    /\ pc' = Upd(pc, p, "done")

ReadReturns(p, found) ==
    /\ reads' = Upd(reads, p, [how |-> "returned", rows |-> found, http |-> "200"])
    /\ pc' = Upd(pc, p, "done")

get_match_results_for_job(p) ==
    /\ pc[p] = "r_query"
    /\ op[p] = "results"
    /\ \/ ReadRaises(p)
       \/ LET ids == InOrder(CandidatesOfJob(arg[p]))
          IN  ReadReturns(p, [i \in 1..Len(ids) |-> MatchResultRow(ids[i])])
    /\ UNCHANGED <<exists, stored, doc, deletes, requests, op, arg, cid, sessCand,
                   sessJob, cvtext, match_result, result, ret, batch, bresult,
                   entry, steps, cause, download, last, engine, costvars>>

get_shortlisted_candidates(p) ==
    /\ pc[p] = "r_query"
    /\ op[p] = "shortlisted"
    /\ \/ ReadRaises(p)
       \/ LET ids == InOrder(ShortlistedOfJob(arg[p]))
          IN  ReadReturns(p, [i \in 1..Len(ids) |-> ShortlistedRow(ids[i])])
    /\ UNCHANGED <<exists, stored, doc, deletes, requests, op, arg, cid, sessCand,
                   sessJob, cvtext, match_result, result, ret, batch, bresult,
                   entry, steps, cause, download, last, engine, costvars>>

-----------------------------------------------------------------------------
(* The surroundings: the document store and the other users of the         *)
(* database.                                                               *)

\* the file behind a cv_file_path is replaced
ReplaceDocument(c, v) ==
    /\ c \in WithDocument
    /\ v \in 1..Len(DOCUMENTS)
    /\ v # doc[c]
    /\ doc' = [doc EXCEPT ![c] = v]
    /\ UNCHANGED <<exists, stored, deletes, requests, pc, op, arg, cid, sessCand, sessJob,
                   cvtext, match_result, result, ret, batch, bresult, entry,
                   steps, cause, download, last>>
    /\ UNCHANGED <<reads, engine, costvars>>

\* a candidate row is deleted by another user of the database
ExternalDelete(c) ==
    /\ deletes < MaxDeletes
    /\ c \in exists
    /\ exists' = exists \ {c}
    /\ stored' = [stored EXCEPT ![c] = NullTriple]
    /\ last' = IF last.valid /\ last.candidate_id = c THEN NoRun ELSE last
    /\ deletes' = deletes + 1
    /\ UNCHANGED <<requests, doc, pc, op, arg, cid, sessCand, sessJob, cvtext,
                   match_result, result, ret, batch, bresult, entry, steps,
                   cause, download>>
    /\ UNCHANGED <<reads, engine, costvars>>

\* migrations/database_migration_task2.py, test_cost_calculations_in_db: the
\* INSERT names the columns job_id, vendor_id, name, email, status and the
\* cost columns, with status 'Shortlisted'; its ON CONFLICT (email) DO UPDATE
\* sets cost columns only, so a second run changes no column kept here.  On a
\* database whose candidates table has no unique index on email the
\* statement raises and the function returns False, changing nothing.
MigrationTestInsert ==
    /\ TestCand \notin exists
    /\ CANDIDATES[TestCand].job_id \in JobIds
    /\ exists' = exists \cup {TestCand}
    /\ stored' = [stored EXCEPT ![TestCand] = [NullTriple EXCEPT !.status = "Shortlisted"]]
    /\ UNCHANGED <<doc, deletes, requests, pc, op, arg, cid, sessCand, sessJob,
                   cvtext, match_result, result, ret, batch, bresult, entry,
                   steps, cause, download, last, reads, engine, costvars>>

-----------------------------------------------------------------------------
(* One request at a time.                                                  *)

Run(p) ==
    \/ LoadCandidate(p)
    \/ LoadJob(p)
    \/ ExtractCvText(p)
    \/ MatchCandidate(p)
    \/ AssignMatchFields(p)
    \/ Commit(p)
    \/ Refresh(p)
    \/ ReturnSuccess(p)
    \/ Rollback(p)
    \/ FinishRequest(p)

RunBatch(p) ==
    \/ BatchLoadJob(p)
    \/ BatchLoadCandidates(p)
    \/ BatchNext(p)
    \/ BatchCollect(p)
    \/ BatchReturn(p)

RunRead(p) ==
    \/ VerifyJob(p)
    \/ get_match_results_for_job(p)
    \/ get_shortlisted_candidates(p)

Next ==
    \/ \E c \in CandIds \cup {MissingCand} : StartMatchCandidate(1, c)
    \/ \E j \in JobIds \cup {MissingJob} : StartMatchJob(1, j)
    \/ \E kind \in ReadOps, j \in JobIds \cup {MissingJob} : StartRead(1, kind, j)
    \/ Run(1)
    \/ RunBatch(1)
    \/ RunRead(1)
    \/ MigrationTestInsert
    \/ \E c \in WithDocument, v \in 1..Len(DOCUMENTS) : ReplaceDocument(c, v)
    \/ \E c \in Deletable : ExternalDelete(c)

Spec == Init /\ [][Next]_vars

-----------------------------------------------------------------------------------------------------------------------------------------------------
(* Requests in flight together for the same candidate, each with its own   *)
(* session; nothing in the code serialises them.                           *)

\* the candidate the requests are for
ConcCand == CHOOSE c \in WithDocument : TRUE

\* requests begun in one concurrent scenario
MaxRequests == 2

\* create_candidate has matched the new candidate against its document
InitConc ==
    /\ exists = Created
    /\ stored = [c \in CandIds |->
                   IF c = ConcCand THEN Triple(MatchOf(c, CvTextOf(c, 1)))
                   ELSE NullTriple]
    /\ doc = [c \in WithDocument |-> 1]
    /\ deletes = 0
    /\ requests = 0
    /\ pc = [p \in Procs |-> "idle"]
    /\ op = [p \in Procs |-> "none"]
    /\ arg = [p \in Procs |-> 0]
    /\ cid = [p \in Procs |-> 0]
    /\ sessCand = [p \in Procs |-> [c \in CandIds |-> NoObject]]
    /\ sessJob = [p \in Procs |-> "absent"]
    /\ cvtext = [p \in Procs |-> ""]
    /\ match_result = [p \in Procs |-> NoMatch]
    /\ result = [p \in Procs |-> NoResult]
    /\ ret = [p \in Procs |-> "none"]
    /\ batch = [p \in Procs |-> NoBatch]
    /\ bresult = [p \in Procs |-> NoResult]
    /\ entry = [p \in Procs |-> NullTriple]
    /\ steps = [p \in Procs |-> <<>>]
    /\ cause = [p \in Procs |-> "none"]
    /\ download = [p \in Procs |-> NoDownload]
    /\ last = NoRun
    /\ reads = [p \in Procs |-> NoRead]
    /\ engine = NoCall
    /\ target = NewCandidate
    /\ setter = NoSet
    /\ timers = <<>>
    /\ ledger = LEDGER
    /\ costcall = NoCostCall

ConcurrentMatch(p) ==
    /\ requests < MaxRequests
    /\ requests' = requests + 1
    /\ MatchCandidateRequest(p, ConcCand)

NextConc ==
    \/ \E p \in Procs : ConcurrentMatch(p)
    \/ \E p \in Procs : Run(p)
    \/ \E v \in 1..Len(DOCUMENTS) : ReplaceDocument(ConcCand, v)

SpecConc == InitConc /\ [][NextConc]_vars

-----------------------------------------------------------------------------
(* The matching engine on its own: calculate_field_score and               *)
(* match_candidate_to_job are static methods, called here directly on      *)
(* inputs drawn from the sets below.                                       *)

\* keyword lists as extract_keywords_from_text returns them, and as a
\* caller may pass them
ENGINE_JD_KEYWORDS ==
    {<<>>, <<"python">>, <<"java">>, <<"python", "java">>, <<"python", "aws">>,
     <<"python", "java", "aws">>}

ENGINE_CV_KEYWORDS ==
    {<<>>, <<"Python">>, <<"Java">>, <<"java", "aws">>, <<"PYTHON", "Java">>}

ENGINE_CV_TEXTS == {"", "x", "pythn", "Senior JAVA developer"}

\* a job whose only requirement is its time zone
ENGINE_JOBS ==
    JOBS \o <<[title             |-> "Office Clerk",
               description       |-> "Filing and typing",
               time_zone         |-> "IST",
               budget_range      |-> "20",
               contract_duration |-> "open"]>>

\* candidates by what they declare
ENGINE_CANDIDATES ==
    {[NoSkills EXCEPT !.hard_skills = h, !.soft_skills = s,
                      !.time_zone_alignment = z,
                      !.contract_duration_willingness = d]
        @@ [name |-> "Candidate", job_id |-> 1] :
        h \in {Null, "Python, AWS", "Java"}, s \in {Null, "Communication"},
        z \in {Null, "IST"}, d \in {Null, "6 months contract"}}

\* the résumé texts passed with them
ENGINE_MATCH_TEXTS == {"", "aws"}

\* the calls made: each of these candidates against each job with a short
\* description, each candidate of the store against its own job, and a
\* candidate whose declared hard skills misspell a required one
ENGINE_CASES ==
    (ENGINE_CANDIDATES \X {1, 3, Len(ENGINE_JOBS)} \X ENGINE_MATCH_TEXTS)
    \cup {<<CANDIDATES[k], CANDIDATES[k].job_id, "">> :
            k \in {i \in CandIds : CANDIDATES[i].job_id \in JobIds}}
    \cup {<<[NoSkills EXCEPT !.hard_skills = "Pythn and AWS"]
               @@ [name |-> "Candidate", job_id |-> 1], 1, t>> : t \in ENGINE_MATCH_TEXTS}

\* MatchingEngine.calculate_field_score(cv_keywords, jd_keywords, cv_text, jd_text)
CallFieldScore(cv_keywords, jd_keywords, cv_text) ==
    /\ engine.call = "none"
    /\ engine' = [call        |-> "field",
                  cv_keywords |-> cv_keywords,
                  jd_keywords |-> jd_keywords,
                  cv_text     |-> cv_text,
                  out         |-> calculate_field_score(cv_keywords, jd_keywords,
                                                        cv_text, "")]
    /\ UNCHANGED <<exists, stored, doc, deletes, requests, pc, op, arg, cid, sessCand,
                   sessJob, cvtext, match_result, result, ret, batch, bresult,
                   entry, steps, cause, download, last, reads, costvars>>

\* MatchingEngine.match_candidate_to_job(candidate, job, cv_text, jd_text),
\* with jd_text as the orchestrator builds it
CallMatch(candidate, job, cv_text) ==
    /\ engine.call = "none"
    /\ engine' = [call      |-> "match",
                  candidate |-> candidate,
                  job       |-> job,
                  cv_text   |-> cv_text,
                  out       |-> match_candidate_to_job(candidate, job, cv_text,
                                                       extract_jd_text(job))]
    /\ UNCHANGED <<exists, stored, doc, deletes, requests, pc, op, arg, cid, sessCand,
                   sessJob, cvtext, match_result, result, ret, batch, bresult,
                   entry, steps, cause, download, last, reads, costvars>>

\* references a cv_file_path column can hold: none, a URL that ends in a
\* file extension, the URL of a raw upload (public_id without extension),
\* and URLs whose folder or file name happens to contain "pdf"
ENGINE_URLS ==
    {Null, "",
     "https://cdn.io/raw/cv_1.pdf",
     "https://cdn.io/raw/CV_1.DOCX",
     "https://cdn.io/raw/cv_1",
     "https://cdn.io/raw/pdf_exports/cv_1.docx"}

\* what the download gives: failure, or bytes one parser can read, or bytes
\* neither can
ENGINE_FETCHED == {DOWNLOAD_FAILED} \cup {DOCUMENTS[i] : i \in 1..Len(DOCUMENTS)}

\* requests.get is reached only past the "if not cv_file_path" return
DownloadsAttempted(cv_file_path) ==
    IF cv_file_path = Null \/ cv_file_path = "" THEN 0 ELSE 1

\* TextParser.extract_text_from_cv(cv_file_path), the download behaving as
\* fetched says
CallExtract(cv_file_path, fetched) ==
    /\ engine.call = "none"
    /\ engine' = [call         |-> "extract",
                  cv_file_path |-> cv_file_path,
                  fetched      |-> fetched,
                  downloads    |-> DownloadsAttempted(cv_file_path),
                  out          |-> extract_text_from_cv(cv_file_path, fetched)]
    /\ UNCHANGED <<exists, stored, doc, deletes, requests, pc, op, arg, cid, sessCand,
                   sessJob, cvtext, match_result, result, ret, batch, bresult,
                   entry, steps, cause, download, last, reads, costvars>>

\* texts and vocabularies for extract_keywords_from_text
ENGINE_TEXTS ==
    {Null, "", "java", "javascript", "JavaScript, then Java.", "unjava java_script",
     "node.js and rest api", "c++ developer", "Full-Time or 3 months"}

ENGINE_VOCABULARIES ==
    {<<"java", "javascript">>, <<"javascript", "java">>,
     <<"node.js", "rest api", "java">>, <<"c++", "java">>,
     CONTRACT_DURATION_KEYWORDS}

\* MatchingEngine.extract_keywords_from_text(text, keyword_list)
CallKeywords(text, keyword_list) ==
    /\ engine.call = "none"
    /\ engine' = [call         |-> "keywords",
                  text         |-> text,
                  keyword_list |-> keyword_list,
                  out          |-> extract_keywords_from_text(text, keyword_list)]
    /\ UNCHANGED <<exists, stored, doc, deletes, requests, pc, op, arg, cid, sessCand,
                   sessJob, cvtext, match_result, result, ret, batch, bresult,
                   entry, steps, cause, download, last, reads, costvars>>

NextEngine ==
    \/ \E ck \in ENGINE_CV_KEYWORDS, jk \in ENGINE_JD_KEYWORDS, t \in ENGINE_CV_TEXTS :
          CallFieldScore(ck, jk, t)
    \/ \E case \in ENGINE_CASES : CallMatch(case[1], ENGINE_JOBS[case[2]], case[3])
    \/ \E url \in ENGINE_URLS, f \in ENGINE_FETCHED : CallExtract(url, f)
    \/ \E t \in ENGINE_TEXTS, kl \in ENGINE_VOCABULARIES : CallKeywords(t, kl)

SpecEngine == Init /\ [][NextEngine]_vars

-----------------------------------------------------------------------------
(* models.py: the 'set' listeners of the four cost attributes and their    *)
(* threading.Timer callbacks, on one Candidate object (SpecListener)       *)

\* attribute assignments made on the object, at most
MaxSets == 2

\* the amounts the object's attributes are set to
SET_VALUES == {0, 5}

matchvars ==
    <<exists, stored, doc, deletes, requests, pc, op, arg, cid, sessCand, sessJob,
      cvtext, match_result, result, ret, batch, bresult, entry, steps, cause,
      download, last, reads, engine>>

\* candidate.<field> = value, first half: the attribute's 'set' event is
\* dispatched before the value is stored; update_candidate_final_rate starts
\* threading.Timer(0, delayed_update), a new thread
SetAttribute(field, value) ==
    /\ setter.field = "none"
    /\ Len(timers) < MaxSets
    /\ setter' = [field |-> field, value |-> value]
    /\ timers' = Append(timers, [at |-> 0, sum |-> 0])
    /\ UNCHANGED <<target, ledger, costcall, matchvars>>

\* second half: the value is stored in the object
StoreAttribute ==
    /\ setter.field # "none"
    /\ target' = [target EXCEPT ![setter.field] = setter.value]
    /\ setter' = NoSet
    /\ UNCHANGED <<timers, ledger, costcall, matchvars>>

\* one step of the callback thread i inside update_final_rate: the four
\* reads of calculate_final_rate (self.<field> or 0.0), one after the other,
\* then the assignment self.final_client_rate = <their sum>
TimerStep(i) ==
    /\ i \in 1..Len(timers)
    /\ timers[i].at <= Len(COST_FIELDS)
    /\ IF timers[i].at < Len(COST_FIELDS)
       THEN /\ timers' = [timers EXCEPT ![i] =
                             [at  |-> @.at + 1,
                              sum |-> @.sum + OrZero(target[COST_FIELDS[@.at + 1]])]]
            /\ UNCHANGED target
       ELSE /\ target' = [target EXCEPT !.final_client_rate = timers[i].sum]
            /\ timers' = [timers EXCEPT ![i].at = @ + 1]
    /\ UNCHANGED <<setter, ledger, costcall, matchvars>>

NextListener ==
    \/ \E i \in 1..Len(COST_FIELDS), v \in SET_VALUES : SetAttribute(COST_FIELDS[i], v)
    \/ StoreAttribute
    \/ \E i \in 1..MaxSets : TimerStep(i)

SpecListener == Init /\ [][NextListener]_vars

-----------------------------------------------------------------------------
(* CostCalculationService, one call after the other (SpecCost)             *)

\* an id no candidates row has
MissingCostId == Cardinality(CostIds) + 1

\* the optional arguments rate, margin, infrastructure_cost, processing_cost
\* of a call
Given(r, m, i, p) ==
    [rate |-> r, margin |-> m, infrastructure_cost |-> i, processing_cost |-> p]

COST_ARGS ==
    {Given(NoCost, NoCost, NoCost, NoCost),
     Given(5, NoCost, NoCost, NoCost),
     Given(NoCost, 0, NoCost, NoCost),
     Given(7, 2, NoCost, NoCost),
     Given(NoCost, NoCost, 1, 3),
     Given(7, 0 - 3, NoCost, NoCost),
     Given(0 - 3, NoCost, NoCost, NoCost)}

\* candidate_ids of a bulk call
COST_ID_LISTS ==
    {<<>>, <<1>>, <<1, 2>>, <<2, 1>>, <<1, 1>>, <<1, MissingCostId>>}

CostFieldSet == {COST_FIELDS[i] : i \in 1..Len(COST_FIELDS)}

\* validate_cost_components: valid unless a value that is not None is < 0
ValidCosts(values) == \A f \in CostFieldSet : values[f] = NoCost \/ values[f] >= 0

\* new value or the row's present one
Effective(given, row) ==
    [f \in CostFieldSet |-> IF given[f] # NoCost THEN given[f] ELSE row[f]]

\* CostCalculationService.calculate_final_rate
calculate_final_rate(rate, margin, infrastructure_cost, processing_cost) ==
    OrZero(rate) + OrZero(margin) + OrZero(infrastructure_cost) + OrZero(processing_cost)

\* the row after UPDATE ... SET <the provided components>, final_client_rate
UpdatedRow(given, row) ==
    LET eff == Effective(given, row)
    IN  [rate                |-> eff.rate,
         margin              |-> eff.margin,
         infrastructure_cost |-> eff.infrastructure_cost,
         processing_cost     |-> eff.processing_cost,
         final_client_rate   |-> calculate_final_rate(eff.rate, eff.margin,
                                     eff.infrastructure_cost, eff.processing_cost)]

CostFailure(msg) == [how |-> "returned", success |-> FALSE, error |-> msg]

CostSuccess == [how |-> "returned", success |-> TRUE, error |-> ""]

\* the except branch: await db.rollback(), which may raise itself, then the
\* 'Database error' dict
DatabaseError(res) ==
    \/ res = CostFailure("Database error")
    \/ res = [how |-> "raised", success |-> FALSE, error |-> "Database error"]

\* update_candidate_costs(candidate_id, db, rate, margin, ...): select, the
\* not-found return, validation of the effective values, UPDATE and commit,
\* the second select, the success dict; any await may raise
update_candidate_costs(candidate_id, given) ==
    \E res \in {CostSuccess, CostFailure("not found"), CostFailure("Validation failed"),
                CostFailure("Database error"),
                [how |-> "raised", success |-> FALSE, error |-> "Database error"]} :
      /\ costcall' = [fn |-> "update", candidate_id |-> candidate_id, given |-> given,
                      before |-> ledger, out |-> res]
      /\ \/ \* the first select raises
            /\ DatabaseError(res)
            /\ UNCHANGED ledger
         \/ /\ candidate_id \notin CostIds
            /\ res = CostFailure("not found")
            /\ UNCHANGED ledger
         \/ /\ candidate_id \in CostIds
            /\ ~ValidCosts(Effective(given, ledger[candidate_id]))
            /\ res = CostFailure("Validation failed")
            /\ UNCHANGED ledger
         \/ /\ candidate_id \in CostIds
            /\ ValidCosts(Effective(given, ledger[candidate_id]))
            /\ \/ \* the UPDATE or the commit raises: rolled back
                  /\ DatabaseError(res)
                  /\ UNCHANGED ledger
               \/ \* committed, then the second select raises
                  /\ DatabaseError(res)
                  /\ ledger' = [ledger EXCEPT ![candidate_id] = UpdatedRow(given, @)]
               \/ /\ res = CostSuccess
                  /\ ledger' = [ledger EXCEPT ![candidate_id] = UpdatedRow(given, @)]
      /\ UNCHANGED <<target, setter, timers, matchvars>>

\* the requested ids, as a set
IdsOf(candidate_ids) == {candidate_ids[i] : i \in 1..Len(candidate_ids)}

\* select(Candidate).where(Candidate.id.in_(candidate_ids)): one row per
\* existing id
FoundCandidates(candidate_ids) == IdsOf(candidate_ids) \cap CostIds

\* bulk_update_costs(candidate_ids, db, rate, margin, ...)
bulk_update_costs(candidate_ids, given) ==
    \E res \in {CostSuccess, CostFailure("No candidate IDs provided"),
                CostFailure("Validation failed"),
                CostFailure("No cost data provided for update"),
                CostFailure("Some candidates not found"),
                CostFailure("Database error"),
                [how |-> "raised", success |-> FALSE, error |-> "Database error"]} :
      /\ costcall' = [fn |-> "bulk", candidate_ids |-> candidate_ids, given |-> given,
                      before |-> ledger, out |-> res]
      /\ IF Len(candidate_ids) = 0
         THEN res = CostFailure("No candidate IDs provided") /\ UNCHANGED ledger
         ELSE IF ~ValidCosts(given)
         THEN res = CostFailure("Validation failed") /\ UNCHANGED ledger
         ELSE IF \A f \in CostFieldSet : given[f] = NoCost
         THEN res = CostFailure("No cost data provided for update") /\ UNCHANGED ledger
         ELSE \/ \* a query, an UPDATE or the commit raises: rolled back
                 /\ DatabaseError(res)
                 /\ UNCHANGED ledger
              \/ /\ Cardinality(FoundCandidates(candidate_ids)) # Len(candidate_ids)
                 /\ res = CostFailure("Some candidates not found")
                 /\ UNCHANGED ledger
              \/ /\ Cardinality(FoundCandidates(candidate_ids)) = Len(candidate_ids)
                 /\ res = CostSuccess
                 /\ ledger' = [c \in CostIds |->
                                  IF c \in FoundCandidates(candidate_ids)
                                  THEN UpdatedRow(given, ledger[c]) ELSE ledger[c]]
      /\ UNCHANGED <<target, setter, timers, matchvars>>

NextCost ==
    \/ \E c \in CostIds \cup {MissingCostId}, g \in COST_ARGS : update_candidate_costs(c, g)
    \/ \E ids \in COST_ID_LISTS, g \in COST_ARGS : bulk_update_costs(ids, g)

SpecCost == Init /\ [][NextCost]_vars

-----------------------------------------------------------------------------
(* Properties                                                              *)

\* the last process_candidate_match call of request p has returned a dict
Returned(p) == ret[p] = "returned"

\* the same, and the row it was for is still there
ReturnedFor(p) == Returned(p) /\ cid[p] \in exists

\* a stored record that a run has written
Matched(c) == c \in exists /\ stored[c].match_score # NullScore

\* C1: every stored record with a non-null match_score has status
\* "Shortlisted" exactly when its stored (rounded) match_score is >= 80.0
C1_StatusIffStoredScore ==
    \A c \in CandIds :
        Matched(c) =>
            (stored[c].status = "Shortlisted"
                <=> stored[c].match_score >= SHORTLIST_THRESHOLD * 100)

\* C2: when process_candidate_match returns success: false, the row's
\* match_score, status and mismatch_summary are what they were when the call
\* began, whichever step failed
C2_FailureLeavesRecord ==
    \A p \in Procs :
        (ReturnedFor(p) /\ ~result[p].success) => stored[cid[p]] = entry[p]

\* C3: in process_job_matches a failed run of one candidate does not abort
\* the batch: once the candidates are loaded every one of them gets its
\* roster entry and the batch returns success
C3_FailureDoesNotAbortBatch ==
    \A p \in Procs :
        (/\ pc[p] = "done"
         /\ op[p] = "batch"
         /\ batch[p].candidates # <<>>
         /\ batch[p].cause # "raised")
        => (/\ bresult[p].success
            /\ Len(batch[p].results) = Len(batch[p].candidates))

\* the triples a run for candidate c can compute
TriplesOf(c) == {Triple(m.result) : m \in {x \in MATCHES : x.candidate_id = c}}

\* C4: with match runs for the same candidate in flight together, the
\* stored triple is the initial triple or the triple one run computed, never
\* fields of two runs mixed
C4_TripleIsOneRunsTriple ==
    stored[ConcCand] \in {NullTriple} \cup TriplesOf(ConcCand)

\* the dimensions of an outcome with missing keywords and a score below 70
WeakDimensions(r) ==
    {f \in DOMAIN r.field_scores :
        Len(r.mismatches[f]) > 0 /\ RatLess(r.field_scores[f], WEAK_THRESHOLD)}

\* the outcomes computed so far that a property speaks about: those the
\* requests hold, and those the stored records came from
OutcomeOfRecord(c, r) ==
    \E m \in MATCHES : m.candidate_id = c /\ m.result = r /\ Triple(r) = stored[c]

\* C5 as stated: mismatch_summary is non-empty only when status is
\* "Rejected" and some dimension has missing keywords and a score below 70
SummaryOnlyWhenWeak(r) ==
    r.mismatch_summary # ""
        => (r.status = "Rejected" /\ WeakDimensions(r) # {})

SummaryOnlyWhenRejected(r) ==
    /\ r.mismatch_summary # "" => r.status = "Rejected"
    /\ r.status = "Rejected" =>
          (r.mismatch_summary = FALLBACK_SUMMARY <=> WeakDimensions(r) = {})
    /\ r.status = "Rejected" => r.mismatch_summary # ""

SecondRun(p) ==
    /\ ReturnedFor(p)
    /\ result[p].success
    /\ last.valid
    /\ last.candidate_id = cid[p]

SameAsFirstRun(p) ==
    /\ Triple(result[p]) = last.triple
    /\ stored[cid[p]] = last.triple

WorkSteps == {"extract_cv", "extract_jd", "match", "assign", "commit", "refresh"}

StepsDone(p) == {steps[p][i] : i \in 1..Len(steps[p])}

\* the positions of a call after both lookups
PastLookups == {"extract_cv", "match", "assign", "commit", "refresh", "return"}

\* C7: when the candidate id does not resolve, or the candidate's job_id
\* does not, process_candidate_match returns success: false with the
\* NotFound message, has done no extraction, scoring or write, and the
\* row's match fields are what they were
C7_NotFoundIsStructuredFailure ==
    \A p \in Procs :
        /\ pc[p] \in PastLookups =>
              (/\ cid[p] \in CandIds
               /\ sessCand[p][cid[p]].st # "absent"
               /\ CANDIDATES[cid[p]].job_id \in JobIds)
        /\ (Returned(p) /\ cause[p] = "candidate_not_found") =>
              (/\ result[p] = Failure(CANDIDATE_NOT_FOUND)
               /\ StepsDone(p) = {"load_candidate"})
        /\ (Returned(p) /\ cause[p] = "job_not_found") =>
              (/\ result[p] = Failure(JOB_NOT_FOUND)
               /\ StepsDone(p) = {"load_candidate", "load_job"}
               /\ cid[p] \in exists => stored[cid[p]] = entry[p])
        /\ (Returned(p) /\ StepsDone(p) \cap WorkSteps = {}) => ~result[p].success

\* a call for a candidate whose job_id resolves to no job has returned
C7_OrphanReturned ==
    \E p \in Procs :
        /\ ReturnedFor(p)
        /\ CANDIDATES[cid[p]].job_id \notin JobIds
        /\ result[p] = Failure(JOB_NOT_FOUND)

\* the batch of request p is over
BatchOver(p) == pc[p] = "done" /\ op[p] = "batch"

\* C8: process_job_matches returns success: true exactly when the job id
\* resolves to a job, whatever the outcomes of its candidates (a batch whose
\* own two queries fail, or out of which a failing rollback raises, apart)
C8_BatchSucceedsIffJobExists ==
    \A p \in Procs :
        (BatchOver(p) /\ batch[p].cause \notin {"execute", "raised"})
            => (bresult[p].success <=> arg[p] \in JobIds)

\* the number of roster entries with success false
Failures(results) == Cardinality({i \in 1..Len(results) : ~results[i].success})

\* C9: a successful process_job_matches result has one roster entry per
\* candidate of the job, in load order, and carries total_candidates,
\* successful_matches and failed_matches with total_candidates =
\* len(results) = successful_matches + failed_matches, all three 0 when the
\* job has no candidates
C9_RosterAndCounts ==
    \A p \in Procs :
        (BatchOver(p) /\ bresult[p].success) =>
            LET r == bresult[p]
            IN  /\ {"total_candidates", "successful_matches", "failed_matches",
                     "results"} \subseteq DOMAIN r
                /\ r.total_candidates = Len(r.results)
                /\ r.total_candidates = r.successful_matches + r.failed_matches
                /\ r.failed_matches = Failures(r.results)
                /\ Len(r.results) = Len(batch[p].candidates)
                /\ \A i \in 1..Len(r.results) :
                      r.results[i].success =>
                          r.results[i].candidate_id = batch[p].candidates[i]

\* why a call can fail: a lookup that finds nothing, or the database
OrchestrationFailures ==
    {"candidate_not_found", "job_not_found", "execute", "commit", "stale", "refresh"}

\* the call of request p got no text out of the candidate's document
NoTextFromDocument(p) ==
    /\ cid[p] \in WithDocument
    /\ download[p].did # "none"
    /\ CvTextOf(cid[p], IF download[p].did = "ok" THEN download[p].version ELSE 0) = ""

\* C10: a document that is absent, unreachable or unparseable does not make
\* a run fail: the run goes on with empty text, stores the score computed
\* from it and returns success: true; a run fails, and a batch counts it in
\* failed_matches, only for a lookup that finds nothing or a database error
C10_DocumentNeverFailsRun ==
    \A p \in Procs :
        /\ NoTextFromDocument(p) => (cvtext[p] = "" /\ cause[p] # "extract")
        /\ (Returned(p) /\ cause[p] = "none") =>
              (/\ result[p].success
               /\ Triple(result[p]) = Triple(MatchOf(cid[p], cvtext[p]))
               /\ cid[p] \in exists => stored[cid[p]] = Triple(result[p]))
        /\ (ret[p] # "none" /\ ~result[p].success) =>
              cause[p] \in OrchestrationFailures
        /\ batch[p].failed_matches = Failures(batch[p].results)
        /\ batch[p].successful_matches + batch[p].failed_matches = Len(batch[p].results)

\* a batch has counted as successful a candidate whose document could not
\* be downloaded
C10_DegradedCountedSuccessful ==
    \E p \in Procs :
        /\ BatchOver(p)
        /\ bresult[p].success
        /\ NoTextFromDocument(p)
        /\ download[p].did = "failed"
        /\ result[p].success
        /\ bresult[p].failed_matches = 0
        /\ stored[cid[p]] = Triple(MatchOf(cid[p], ""))

\* C11: no operation of the matching core lets an exception escape to its
\* caller: process_candidate_match and process_job_matches always return a
\* dict, and the two read paths always return a list
C11_NoExceptionEscapes ==
    \A p \in Procs :
        /\ ret[p] # "raised"
        /\ reads[p].how # "raised"

\* a step that changes a match column of a row that stays, or adds a row
\* whose match columns are not all NULL
WritesMatchFields(c) ==
    \/ c \in exists /\ c \in exists' /\ stored'[c] # stored[c]
    \/ c \notin exists /\ c \in exists' /\ stored'[c] # NullTriple

\* C12: only the matching orchestrator writes match_score, status and
\* mismatch_summary: a step that changes them on a row is the commit of a
\* process_candidate_match call for that row, and a new row has all three
\* NULL
C12_OnlyOrchestratorWrites ==
    [][\A c \in CandIds :
          WritesMatchFields(c) =>
              \E p \in Procs : pc[p] = "commit" /\ cid[p] = c /\ c \in exists]_vars

\* the stored fields the read paths project, row by row
StoredFieldsOf(row) ==
    /\ row.candidate_id \in exists
    /\ row.match_score = stored[row.candidate_id].match_score
    /\ row.status = stored[row.candidate_id].status
    /\ "mismatch_summary" \in DOMAIN row =>
          row.mismatch_summary = stored[row.candidate_id].mismatch_summary

\* what a read path has to return for job j: the candidates of the job,
\* or those of them whose stored status is "Shortlisted"
ExpectedIds(kind, j) ==
    {c \in exists :
        /\ CANDIDATES[c].job_id = j
        /\ kind = "shortlisted" => stored[c].status = "Shortlisted"}

\* C13: a step of a read request writes nothing to the store, and the list
\* a read path returns has one projection of the stored fields for each
\* candidate of the job - all of them for get_match_results_for_job, never
\* matched ones included, those with stored status "Shortlisted" for
\* get_shortlisted_candidates
C13_ReadPathsProjectStore ==
    [][\A p \in Procs :
          (op[p] \in ReadOps /\ pc'[p] # pc[p]) =>
              /\ stored' = stored
              /\ exists' = exists
              /\ (reads'[p].how = "returned" /\ reads[p].how = "none") =>
                    LET found == reads'[p].rows
                    IN  /\ {found[i].candidate_id : i \in 1..Len(found)}
                              = ExpectedIds(op[p], arg[p])
                        /\ Len(found) = Cardinality(ExpectedIds(op[p], arg[p]))
                        /\ \A i \in 1..Len(found) : StoredFieldsOf(found[i])]_vars

\* get_shortlisted_candidates has returned some but not all candidates of a
\* job that also has a rejected candidate
C13_ShortlistFiltered ==
    \E p \in Procs :
        /\ op[p] = "shortlisted"
        /\ reads[p].how = "returned"
        /\ Len(reads[p].rows) >= 1
        /\ \A i \in 1..Len(reads[p].rows) :
              /\ StoredFieldsOf(reads[p].rows[i])
              /\ reads[p].rows[i].status = "Shortlisted"
        /\ \E c \in exists : CANDIDATES[c].job_id = arg[p] /\ stored[c].status = "Rejected"

-----------------------------------------------------------------------------
(* The matching engine, one call at a time (SpecEngine)                    *)

\* the five dimensions and their weights as the specification states them,
\* in percent
DimensionWeights ==
    [hard_skills |-> 40, soft_skills |-> 20, certifications |-> 20,
     time_zone |-> 10, contract_duration |-> 10]

DimensionOrder ==
    <<"hard_skills", "soft_skills", "certifications", "time_zone", "contract_duration">>

RECURSIVE StatedWeightedSum(_, _)
\* the sum over the first n dimensions of score * weight, as an exact rational
StatedWeightedSum(scores, n) ==
    IF n = 0 THEN <<0, 1>>
    ELSE RatAdd(StatedWeightedSum(scores, n - 1),
                RatMul(scores[DimensionOrder[n]],
                       <<DimensionWeights[DimensionOrder[n]], 100>>))

UnroundedOverall(out) == StatedWeightedSum(out.field_scores, Len(DimensionOrder))

InPercentRange(x) == x[2] > 0 /\ x[1] >= 0 /\ x[1] <= 100 * x[2]

\* C14: the status of a match is "Shortlisted" or "Rejected" and nothing
\* else, and it is "Shortlisted" exactly when the unrounded weighted overall
\* score is at least 80.0, the boundary included.
C14_StatusIffOverallAtLeast80 ==
    engine.call = "match" =>
        /\ engine.out.status \in {"Shortlisted", "Rejected"}
        /\ engine.out.status = "Shortlisted"
               <=> UnroundedOverall(engine.out)[1] >= 80 * UnroundedOverall(engine.out)[2]

\* a match whose overall score is exactly 80 came out Shortlisted
C14_ExactlyEightyShortlisted ==
    /\ engine.call = "match"
    /\ UnroundedOverall(engine.out) = <<80, 1>>
    /\ engine.out.status = "Shortlisted"

\* C15: the five weights sum to exactly 1.0 (100 percent); the overall score
\* is the sum over the dimensions of score * weight; every dimension score,
\* the overall score and every non-null stored match_score lie in [0, 100].
C15_WeightsAndRanges ==
    /\ FIELD_WEIGHTS = DimensionWeights
    /\ FIELD_WEIGHTS.hard_skills + FIELD_WEIGHTS.soft_skills
         + FIELD_WEIGHTS.certifications + FIELD_WEIGHTS.time_zone
         + FIELD_WEIGHTS.contract_duration = 100
    /\ engine.call = "field" => InPercentRange(engine.out.score)
    /\ engine.call = "match" =>
          /\ \A f \in DOMAIN engine.out.field_scores :
                 InPercentRange(engine.out.field_scores[f])
          /\ engine.out.overall_score = UnroundedOverall(engine.out)
          /\ InPercentRange(engine.out.overall_score)
          /\ engine.out.match_score \in 0..(100 * 100)
    /\ \A c \in exists :
          stored[c].match_score # NullScore => stored[c].match_score \in 0..(100 * 100)

\* a match in which every dimension and the overall score reach the upper end
\* of the range
C15_FullScoreReached ==
    /\ engine.call = "match"
    /\ engine.out.overall_score = <<100, 1>>
    /\ engine.out.match_score = 100 * 100
    /\ \A f \in DOMAIN engine.out.field_scores : engine.out.field_scores[f] = <<100, 1>>

DimensionTitle ==
    [hard_skills |-> "Hard Skills", soft_skills |-> "Soft Skills",
     certifications |-> "Certifications", time_zone |-> "Time Zone",
     contract_duration |-> "Contract Duration"]

RECURSIVE Joined(_, _)
\* the items of a sequence of strings, with sep between neighbours
Joined(items, sep) ==
    IF Len(items) = 0 THEN ""
    ELSE IF Len(items) = 1 THEN items[1]
    ELSE items[1] \o sep \o Joined(Tail(items), sep)

\* the fragment that names a dimension with a list of missing terms
Fragment(f, terms) == DimensionTitle[f] \o ": Missing " \o Joined(terms, ", ")

\* the dimensions of a match result with a non-empty missing list and a
\* score below 70, in dimension order
WeakInOrder(out) ==
    SelectSeq(DimensionOrder,
              LAMBDA f : /\ Len(out.mismatches[f]) > 0
                         /\ out.field_scores[f][1] < 70 * out.field_scores[f][2])

ExpectedSummary(out) ==
    IF out.status # "Rejected" THEN ""
    ELSE IF Len(WeakInOrder(out)) = 0
         THEN "Overall score below threshold despite partial matches"
    ELSE Joined([i \in 1..Len(WeakInOrder(out)) |->
                    Fragment(WeakInOrder(out)[i],
                             out.mismatches[WeakInOrder(out)[i]])], "; ")

\* C16: the mismatch_summary of a Rejected match is the fragments
\* "<Dimension In Title Case>: Missing <missing terms joined by ', '>" of the
\* dimensions with a non-empty missing list and a score below 70, in
\* dimension order, joined by "; "; it is the fallback sentence when there is
\* no such dimension, and it is empty when the match is Shortlisted.
C16_SummaryFormat ==
    engine.call = "match" => engine.out.mismatch_summary = ExpectedSummary(engine.out)

\* a Rejected match whose summary names two or more dimensions, one of them
\* with more than one missing term, while another dimension scores 100
C16_TwoFragmentsJoined ==
    /\ engine.call = "match"
    /\ engine.out.status = "Rejected"
    /\ Len(WeakInOrder(engine.out)) >= 2
    /\ \E f \in DOMAIN engine.out.mismatches : Len(engine.out.mismatches[f]) >= 2
    /\ \E f \in DOMAIN engine.out.field_scores : engine.out.field_scores[f] = <<100, 1>>
    /\ engine.out.mismatch_summary # ""

\* C17: a dimension for which the job yields no keyword scores exactly 100
\* with an empty missing list, whatever the candidate declares and whatever
\* the resume text is.
C17_NoRequirementScoresFull ==
    /\ (engine.call = "field" /\ Len(engine.jd_keywords) = 0) =>
           /\ engine.out.score = <<100, 1>>
           /\ engine.out.missing = <<>>
    /\ engine.call = "match" =>
           \A f \in DOMAIN engine.out.field_scores :
               Len(JdKeywords(engine.job, f, extract_jd_text(engine.job))) = 0 =>
                   /\ engine.out.field_scores[f] = <<100, 1>>
                   /\ engine.out.mismatches[f] = <<>>

\* no requirement and nothing on the candidate's side either: still 100
C17_EmptyAgainstEmpty ==
    /\ engine.call = "field"
    /\ Len(engine.jd_keywords) = 0
    /\ Len(engine.cv_keywords) = 0
    /\ engine.cv_text = ""
    /\ engine.out.score = <<100, 1>>

\* C18: with at least one job keyword, a candidate with no keywords and no
\* text scores 0 and the missing list is the whole job keyword list.
C18_EmptyCandidateScoresZero ==
    (/\ engine.call = "field"
     /\ Len(engine.jd_keywords) > 0
     /\ Len(engine.cv_keywords) = 0
     /\ engine.cv_text = "") =>
        /\ engine.out.score[1] = 0
        /\ engine.out.missing = engine.jd_keywords

\* such a call with several job keywords returned
C18_AllKeywordsMissing ==
    /\ engine.call = "field"
    /\ Len(engine.jd_keywords) >= 2
    /\ Len(engine.cv_keywords) = 0
    /\ engine.cv_text = ""
    /\ engine.out.missing = engine.jd_keywords

\* a job keyword is matched when it equals some candidate keyword, case
\* ignored, or its fuzzy partial ratio against the candidate text is >= 80
IsMatched(kw, cv_keywords, cv_text) ==
    \/ \E i \in 1..Len(cv_keywords) : StrLower(cv_keywords[i]) = StrLower(kw)
    \/ partial_ratio(StrLower(kw), StrLower(cv_text)) >= 80

\* C19: with job keywords present, the missing list is the unmatched job
\* keywords in job order, the score is 100 * |matched| / |job keywords|,
\* |matched| + |missing| = |job keywords|, and the score is 100 exactly when
\* nothing is missing.
C19_MatchedMissingPartition ==
    (engine.call = "field" /\ Len(engine.jd_keywords) > 0) =>
        LET unmatched == SelectSeq(engine.jd_keywords,
                             LAMBDA kw : ~IsMatched(kw, engine.cv_keywords, engine.cv_text))
            matched   == SelectSeq(engine.jd_keywords,
                             LAMBDA kw : IsMatched(kw, engine.cv_keywords, engine.cv_text))
        IN  /\ engine.out.missing = unmatched
            /\ Len(matched) + Len(engine.out.missing) = Len(engine.jd_keywords)
            /\ engine.out.score[1] * Len(engine.jd_keywords)
                   = 100 * Len(matched) * engine.out.score[2]
            /\ engine.out.score = <<100, 1>> <=> engine.out.missing = <<>>

\* a call in which one keyword matched a declared keyword of another case,
\* one matched the text only (fuzzily, the text not containing it), and one
\* matched nothing
C19_ExactFuzzyAndMissing ==
    /\ engine.call = "field"
    /\ Len(engine.jd_keywords) = 3
    /\ Len(engine.out.missing) = 1
    /\ \E i \in 1..3, j \in 1..Len(engine.cv_keywords) :
           /\ engine.cv_keywords[j] # engine.jd_keywords[i]
           /\ StrLower(engine.cv_keywords[j]) = engine.jd_keywords[i]
    /\ \E i \in 1..3 :
           /\ \A j \in 1..Len(engine.cv_keywords) :
                  StrLower(engine.cv_keywords[j]) # engine.jd_keywords[i]
           /\ ~Contains(engine.jd_keywords[i], StrLower(engine.cv_text))
           /\ engine.jd_keywords[i] \notin
                  {engine.out.missing[k] : k \in 1..Len(engine.out.missing)}

\* a candidate with no declared skill text of any kind
NothingDeclared(candidate) ==
    /\ candidate.hard_skills = Null
    /\ candidate.soft_skills = Null
    /\ candidate.certifications = Null
    /\ candidate.time_zone_alignment = Null
    /\ candidate.contract_duration_willingness = Null

RequiredDimensions(job) ==
    {f \in DOMAIN DimensionTitle : Len(JdKeywords(job, f, extract_jd_text(job))) > 0}

RequiredFragment(job, f) == Fragment(f, JdKeywords(job, f, extract_jd_text(job)))

\* C20 as stated: for a candidate with no resume text and nothing declared,
\* every dimension with a required keyword scores 0 and the mismatch_summary
\* names every such dimension with its missing keywords.
C20_SummaryNamesEveryRequiredDimension ==
    (/\ engine.call = "match"
     /\ NothingDeclared(engine.candidate)
     /\ engine.cv_text = "") =>
        \A f \in RequiredDimensions(engine.job) :
            /\ engine.out.field_scores[f][1] = 0
            /\ Contains(RequiredFragment(engine.job, f), engine.out.mismatch_summary)

\* C20 amended: every such dimension scores 0 with all its keywords missing;
\* the mismatch_summary names each of them, in dimension order and nothing
\* else, when the match is Rejected, and is empty when the dimensions without
\* a requirement carry the match to Shortlisted.
C20_SummaryNamesRequiredWhenRejected ==
    (/\ engine.call = "match"
     /\ NothingDeclared(engine.candidate)
     /\ engine.cv_text = "") =>
        /\ \A f \in RequiredDimensions(engine.job) :
               /\ engine.out.field_scores[f][1] = 0
               /\ engine.out.mismatches[f]
                      = JdKeywords(engine.job, f, extract_jd_text(engine.job))
        /\ engine.out.status = "Rejected" =>
               /\ \A f \in RequiredDimensions(engine.job) :
                      Contains(RequiredFragment(engine.job, f), engine.out.mismatch_summary)
               /\ engine.out.mismatch_summary =
                      Joined([i \in 1..Len(SelectSeq(DimensionOrder,
                                  LAMBDA f : f \in RequiredDimensions(engine.job))) |->
                                 RequiredFragment(engine.job,
                                     SelectSeq(DimensionOrder,
                                         LAMBDA f : f \in RequiredDimensions(engine.job))[i])],
                             "; ")
        /\ engine.out.status = "Shortlisted" => engine.out.mismatch_summary = ""

\* a candidate with nothing declared and no text was Rejected against a job
\* with several required dimensions
C20_EmptyCandidateRejected ==
    /\ engine.call = "match"
    /\ NothingDeclared(engine.candidate)
    /\ engine.cv_text = ""
    /\ engine.out.status = "Rejected"
    /\ Cardinality(RequiredDimensions(engine.job)) >= 2

-----------------------------------------------------------------------------
(* The cost columns                                                        *)

\* every assignment begun has stored its value and every callback has run
AllCallbacksRun ==
    /\ Len(timers) > 0
    /\ setter.field = "none"
    /\ \A i \in 1..Len(timers) : timers[i].at > Len(COST_FIELDS)

\* C28: once every scheduled callback has run, final_client_rate of the
\* object equals rate + margin + infrastructure_cost + processing_cost over
\* the current values of the components (null counted as 0), whatever the
\* interleaving of assignments and callbacks was.
C28_FinalRateAfterCallbacks ==
    AllCallbacksRun =>
        target.final_client_rate
            = OrZero(target.rate) + OrZero(target.margin)
                + OrZero(target.infrastructure_cost) + OrZero(target.processing_cost)

\* the row of the candidate after a call is the row before it with the
\* provided components replaced and final_client_rate their sum
RowAsRequested(before, after, given) ==
    /\ \A f \in CostFieldSet :
           after[f] = IF given[f] # NoCost THEN given[f] ELSE before[f]
    /\ after.final_client_rate
           = OrZero(after.rate) + OrZero(after.margin)
               + OrZero(after.infrastructure_cost) + OrZero(after.processing_cost)

\* C29: a successful update_candidate_costs call leaves final_client_rate
\* equal to the sum of the four stored components, a component not provided
\* keeping its value; a call that returns success: false changes no stored
\* field.
C29_UpdateKeepsSumOrChangesNothing ==
    (costcall.fn = "update" /\ costcall.out.how = "returned") =>
        /\ costcall.out.success =>
               /\ costcall.candidate_id \in CostIds
               /\ RowAsRequested(costcall.before[costcall.candidate_id],
                                 ledger[costcall.candidate_id], costcall.given)
               /\ \A c \in CostIds \ {costcall.candidate_id} :
                      ledger[c] = costcall.before[c]
        /\ ~costcall.out.success => ledger = costcall.before

\* C30: bulk_update_costs, called with a non-empty id list and cost values of
\* which at least one is given and none is negative, succeeds exactly when
\* every requested id is the id of an existing candidate (the database
\* itself not failing); on success every requested row has the provided
\* components and final_client_rate their sum, on failure no row is changed.
C30_BulkSucceedsIffAllExist ==
    (/\ costcall.fn = "bulk"
     /\ Len(costcall.candidate_ids) > 0
     /\ \E f \in CostFieldSet : costcall.given[f] # NoCost
     /\ \A f \in CostFieldSet : costcall.given[f] = NoCost \/ costcall.given[f] >= 0
     /\ costcall.out.error # "Database error") =>
        /\ costcall.out.success
               <=> \A i \in 1..Len(costcall.candidate_ids) :
                       costcall.candidate_ids[i] \in CostIds
        /\ costcall.out.success =>
               \A c \in CostIds :
                   IF \E i \in 1..Len(costcall.candidate_ids) : costcall.candidate_ids[i] = c
                   THEN RowAsRequested(costcall.before[c], ledger[c], costcall.given)
                   ELSE ledger[c] = costcall.before[c]
        /\ ~costcall.out.success => ledger = costcall.before

-----------------------------------------------------------------------------
(* The extractors on their own (SpecEngine)                                *)

\* C21: extract_text_from_cv never raises; for an empty reference it returns
\* the empty text without attempting a download; when the download fails, or
\* no parser gets any text out of the bytes, it returns the empty string.
C21_ExtractorFailsSoft ==
    engine.call = "extract" =>
        /\ engine.out # EXTRACT_RAISED
        /\ (engine.cv_file_path = Null \/ engine.cv_file_path = "") =>
               (engine.out = "" /\ engine.downloads = 0)
        /\ ~engine.fetched.ok => engine.out = ""
        /\ (engine.fetched.pdf = "" /\ engine.fetched.docx = "") => engine.out = ""

\* a download was attempted for a reference, failed, and the text is empty
C21_FailedDownloadGivesEmpty ==
    /\ engine.call = "extract"
    /\ engine.cv_file_path \notin {Null, ""}
    /\ engine.downloads = 1
    /\ ~engine.fetched.ok
    /\ engine.out = ""

\* term occurs in text at position i as a whole word: the characters next to
\* the occurrence, where there are any, are not word characters
WholeWordAt(term, text, i) ==
    /\ SubSeq(text, i, i + Len(term) - 1) = term
    /\ i = 1 \/ SubSeq(text, i - 1, i - 1) \notin WordChars
    /\ i + Len(term) > Len(text)
         \/ SubSeq(text, i + Len(term), i + Len(term)) \notin WordChars

OccursAsWord(term, text) ==
    /\ text # Null
    /\ \E i \in 1..(Len(text) - Len(term) + 1) :
           WholeWordAt(StrLower(term), StrLower(text), i)

\* every term of the vocabulary begins and ends with a word character
WordEdged(keyword_list) ==
    \A i \in 1..Len(keyword_list) :
        /\ Len(keyword_list[i]) > 0
        /\ SubSeq(keyword_list[i], 1, 1) \in WordChars
        /\ SubSeq(keyword_list[i], Len(keyword_list[i]), Len(keyword_list[i])) \in WordChars

DimensionText(candidate, f, cv_text) ==
    (IF CandidateField(candidate, f) = Null THEN "" ELSE CandidateField(candidate, f))
        \o " " \o cv_text

\* C24: the fuzzy fallback of a dimension is evaluated against the declared
\* field of the dimension together with the resume text, so a required
\* keyword whose fuzzy partial ratio against that text is at least 80 is not
\* missing, also when the resume text is empty.
C24_FuzzyAgainstDeclaredField ==
    engine.call = "match" =>
        \A f \in DOMAIN engine.out.mismatches :
            \A i \in 1..Len(engine.out.mismatches[f]) :
                partial_ratio(StrLower(engine.out.mismatches[f][i]),
                              StrLower(DimensionText(engine.candidate, f, engine.cv_text)))
                    < 80

\* the values of the job's fields, without the labels
JobValues(job) ==
    Joined(SelectSeq(<<job.title, job.description, job.time_zone, job.budget_range,
                       job.contract_duration>>,
                     LAMBDA v : v # Null /\ v # ""), "\n")

\* C25: the job keywords of a dimension are vocabulary terms that occur in
\* the values of the job's fields, the labels contributing none; a dimension
\* none of whose vocabulary terms occurs in the values scores 100.
C25_LabelsContributeNoKeyword ==
    engine.call = "match" =>
        \A f \in DOMAIN engine.out.field_scores :
            /\ \A i \in 1..Len(JdKeywords(engine.job, f, extract_jd_text(engine.job))) :
                   OccursAsWord(JdKeywords(engine.job, f, extract_jd_text(engine.job))[i],
                                JobValues(engine.job))
            /\ (\A i \in 1..Len(KeywordList(f)) :
                    ~OccursAsWord(KeywordList(f)[i], JobValues(engine.job)))
                   => engine.out.field_scores[f] = <<100, 1>>

\* the file name of a reference ends in the extension
HasExtension(url, ext) ==
    /\ Len(url) >= Len(ext)
    /\ StrLower(SubSeq(url, Len(url) - Len(ext) + 1, Len(url))) = ext

\* C27: a reference with a PDF hint is read by the PDF parser only, one with
\* a Word-processor hint by the Word-processor parser only; a reference with
\* neither hint is read by the PDF parser and, if that gives nothing, by the
\* Word-processor parser, the first non-empty text being returned.
C27_ParserChosenByHint ==
    (engine.call = "extract" /\ engine.fetched.ok /\ engine.cv_file_path \notin {Null, ""}) =>
        /\ HasExtension(engine.cv_file_path, ".pdf") =>
               engine.out = StrStrip(engine.fetched.pdf)
        /\ HasExtension(engine.cv_file_path, ".docx") =>
               engine.out = StrStrip(engine.fetched.docx)
        /\ (/\ ~Contains("pdf", StrLower(engine.cv_file_path))
            /\ ~Contains("docx", StrLower(engine.cv_file_path))) =>
               engine.out = IF StrStrip(engine.fetched.pdf) # ""
                            THEN StrStrip(engine.fetched.pdf)
                            ELSE StrStrip(engine.fetched.docx)

-----------------------------------------------------------------------------
(* The run of process_candidate_match                                      *)

\* the steps of a run, in the order of the code
RunOrder ==
    <<"load_candidate", "load_job", "extract_cv", "extract_jd", "match", "assign",
      "commit", "refresh">>

\* the steps a call has performed, the rollback of its except branch apart
StepsBeforeRollback(p) == SelectSeq(steps[p], LAMBDA name : name # "rollback")

\* C23: the steps of a process_candidate_match run are, in this order, load
\* candidate, load job, extract resume text, extract job text, score and
\* aggregate, persist: whatever a run has done is an initial part of that
\* order (so no step is repeated, the job is not loaded before the
\* candidate, nothing is persisted before both loads and the aggregation), a
\* run that ends at a load step has done nothing after it, and the only
\* thing that follows a failure is the rollback, once.
C23_RunFollowsOrder ==
    \A p \in Procs :
        /\ StepsBeforeRollback(p) = SubSeq(RunOrder, 1, Len(StepsBeforeRollback(p)))
        /\ \A i \in 1..Len(steps[p]) : steps[p][i] = "rollback" => i = Len(steps[p])
        /\ (ret[p] = "returned" /\ cause[p] = "candidate_not_found") =>
               steps[p] = <<"load_candidate">>
        /\ (ret[p] = "returned" /\ cause[p] = "job_not_found") =>
               steps[p] = <<"load_candidate", "load_job">>
        /\ (ret[p] = "returned" /\ result[p].success) => steps[p] = RunOrder

\* a run has gone through every step in order, returned success, and its
\* triple is the stored one
C23_WholeRunReturned ==
    \E p \in Procs :
        /\ ret[p] = "returned"
        /\ result[p].success
        /\ steps[p] = RunOrder
        /\ stored[cid[p]] = Triple(match_result[p])

\* C26: the three matching fields of a candidate created through the
\* candidates endpoint are all null or all non-null after any match runs,
\* single or batch, successful or failed, and when they are non-null
\* mismatch_summary is the empty string exactly when status is "Shortlisted".
\* It holds while runs follow one another (Spec); two runs of one candidate
\* that overlap store the status of one and the summary of the other.
C26_TripleAllOrNothing ==
    \A c \in exists \cap Created :
        \/ stored[c] = NullTriple
        \/ /\ stored[c].match_score # NullScore
           /\ stored[c].status # Null
           /\ stored[c].mismatch_summary # Null
           /\ stored[c].mismatch_summary = "" <=> stored[c].status = "Shortlisted"

====
